---- MODULE Spec2Model ----
(***************************************************************************)
(* Model of the plan compiler pipeline of WWT: the TOON notation parser    *)
(* and serializer (src/toon), the plan validator (src/compiler/validator), *)
(* the dashboard generator (src/grafana/generator) and the query executor  *)
(* (src/orchestration/executor).                                           *)
(*                                                                         *)
(* Python strings are sequences of one-character strings, so that the      *)
(* regular expressions and the character scans of the code are modelled    *)
(* character by character.  The alphabet is ASCII.                         *)
(***************************************************************************)
EXTENDS Integers, Sequences, FiniteSets, TLC

VARIABLES
    pc,              \* position in the call sequence of the scenario
    sql,             \* the string handed to validate_sql_readonly
    plan,            \* the plan handed to validate_plan / generate_dashboard
    table_profiles,  \* the schema snapshot handed to validate_plan
    outcome,         \* result of the validator call: OK or the error raised
    dashboard,       \* result of generate_dashboard
    text,            \* the notation text handed to parse_toon
    tree,            \* the caller's tree: parse_toon's result, then serialize_toon's argument
    emitted,         \* the string serialize_toon returned
    reparsed,        \* parse_toon of the emitted string
    query_result,    \* the QueryResult of the executor
    db_log,          \* what the executor has done on the database, in order
    panel_specs,     \* the panel specs handed to generate_multi_panel_dashboard
    validate,        \* compile_question_sync's argument validate
    max_retries,     \* compile_question_sync's argument max_retries
    attempt,         \* the loop variable of compile_question_sync
    last_error,      \* the error of the last failed attempt
    messages,        \* the history sent to the model: its responses and the error feedback
    compiled,        \* what compile_question_sync returned or raised
    page             \* the template ask_question renders

compiler_vars == <<validate, max_retries, attempt, last_error, messages, compiled, page>>

vars == <<pc, sql, plan, table_profiles, outcome, dashboard, text, tree, emitted, reparsed,
          query_result, db_log, panel_specs, compiler_vars>>

\* Value of a variable a scenario does not use.
Unused == "unused"

\* the scenarios that do not run the compiler
CompilerUnused ==
    /\ validate = Unused /\ max_retries = Unused /\ attempt = Unused /\ last_error = Unused
    /\ messages = Unused /\ compiled = Unused /\ page = Unused

-----------------------------------------------------------------------------
(* Characters and Python string primitives                                 *)

LowerChars == <<"a","b","c","d","e","f","g","h","i","j","k","l","m","n","o","p","q","r","s","t","u","v","w","x","y","z">>
UpperChars == <<"A","B","C","D","E","F","G","H","I","J","K","L","M","N","O","P","Q","R","S","T","U","V","W","X","Y","Z">>
DigitChars == <<"0","1","2","3","4","5","6","7","8","9">>

Range(f) == {f[i] : i \in DOMAIN f}

IsLower(c) == c \in Range(LowerChars)
IsUpper(c) == c \in Range(UpperChars)
IsDigit(c) == c \in Range(DigitChars)

\* \w of the re module, on ASCII
IsWordChar(c) == IsLower(c) \/ IsUpper(c) \/ IsDigit(c) \/ c = "_"

\* \s of the re module and the " \t\n\r" of the parser, on the model's alphabet
IsSpace(c) == c \in {" ", "\n", "\t", "\r"}

UpperChar(c) == IF IsLower(c) THEN UpperChars[CHOOSE i \in 1..26 : LowerChars[i] = c] ELSE c
LowerChar(c) == IF IsUpper(c) THEN LowerChars[CHOOSE i \in 1..26 : UpperChars[i] = c] ELSE c

\* str.upper() and str.lower()
Upper(s) == [i \in 1..Len(s) |-> UpperChar(s[i])]
Lower(s) == [i \in 1..Len(s) |-> LowerChar(s[i])]

\* s[i:j] of Python with 0 <= i, on 1-based positions: the characters i+1..j
Slice(s, i, j) == SubSeq(s, i + 1, IF j > Len(s) THEN Len(s) ELSE j)

\* s.startswith(p) at offset i (0-based)
StartsAt(s, i, p) == i + Len(p) <= Len(s) /\ SubSeq(s, i + 1, i + Len(p)) = p

\* p in s
Contains(s, p) == \E i \in 0..Len(s) : StartsAt(s, i, p)

\* \b of the re module at 0-based offset i: exactly one side is a word character
WordBoundary(s, i) ==
    LET before == i > 0 /\ IsWordChar(s[i])
        after  == i < Len(s) /\ IsWordChar(s[i + 1])
    IN  before # after

\* re.search(r"\b" + word + r"\b", s)
SearchWholeWord(word, s) ==
    \E i \in 0..Len(s) :
        /\ WordBoundary(s, i)
        /\ StartsAt(s, i, word)
        /\ WordBoundary(s, i + Len(word))

Min(S) == CHOOSE m \in S : \A n \in S : m <= n

RECURSIVE Concat(_)
\* "".join(parts)
Concat(parts) == IF parts = <<>> THEN <<>> ELSE Head(parts) \o Concat(Tail(parts))

-----------------------------------------------------------------------------
(* Results of the validator: it returns None or raises ValidationError     *)

OK == [ok |-> TRUE]
ValidationError(kind, detail) == [ok |-> FALSE, kind |-> kind, detail |-> detail]

-----------------------------------------------------------------------------
(* validate_sql_readonly                                                   *)

WRITE_KEYWORDS == <<
    <<"I","N","S","E","R","T">>,
    <<"U","P","D","A","T","E">>,
    <<"D","E","L","E","T","E">>,
    <<"D","R","O","P">>,
    <<"C","R","E","A","T","E">>,
    <<"A","L","T","E","R">>,
    <<"T","R","U","N","C","A","T","E">>,
    <<"R","E","P","L","A","C","E">>,
    <<"M","E","R","G","E">> >>

\* A bug the code could have: the keyword is searched without the \b anchors.
validate_sql_readonly_substring(s) ==
    LET sql_upper == Upper(s)
        hits == {k \in 1..Len(WRITE_KEYWORDS) : Contains(sql_upper, WRITE_KEYWORDS[k])}
    IN  IF hits = {} THEN OK
        ELSE ValidationError("forbidden_keyword", WRITE_KEYWORDS[Min(hits)])

\* A bug the code could have: the keywords are searched in sql, not in sql.upper().
validate_sql_readonly_case_sensitive(s) ==
    LET hits == {k \in 1..Len(WRITE_KEYWORDS) : SearchWholeWord(WRITE_KEYWORDS[k], s)}
    IN  IF hits = {} THEN OK
        ELSE ValidationError("forbidden_keyword", WRITE_KEYWORDS[Min(hits)])

\* The loop raises at the first keyword of WRITE_KEYWORDS found in sql.upper().
validate_sql_readonly(s) ==
    LET sql_upper == Upper(s)
        hits == {k \in 1..Len(WRITE_KEYWORDS) : SearchWholeWord(WRITE_KEYWORDS[k], sql_upper)}
    IN  IF hits = {} THEN OK
        ELSE ValidationError("forbidden_keyword", WRITE_KEYWORDS[Min(hits)])

RECURSIVE StripQuoted(_, _)
\* re.sub(q + "[^q]*" + q, "", s): every leftmost quoted span is removed
StripQuoted(s, q) ==
    IF s = <<>> THEN <<>>
    ELSE IF Head(s) = q /\ \E j \in 2..Len(s) : s[j] = q
         THEN LET close == Min({j \in 2..Len(s) : s[j] = q})
              IN  StripQuoted(SubSeq(s, close + 1, Len(s)), q)
         ELSE <<Head(s)>> \o StripQuoted(Tail(s), q)

\* the two substitutions of validate_column_references
StripLiterals(s) == StripQuoted(StripQuoted(s, "'"), "\"")

-----------------------------------------------------------------------------
(* Python values: the trees parse_toon returns and the plans built on them *)
(* A dict is the sequence of its <<key, value>> items in insertion order.  *)

PyNone == [t |-> "none", v |-> "none"]
PyBool(b) == [t |-> "bool", v |-> b]
PyInt(n) == [t |-> "int", v |-> n]
PyStr(s) == [t |-> "str", v |-> s]
PyList(xs) == [t |-> "list", v |-> xs]
PyDict(items) == [t |-> "dict", v |-> items]

\* bool(x)
Truthy(x) ==
    CASE x.t = "none" -> FALSE
      [] x.t = "bool" -> x.v
      [] x.t = "int" -> x.v # 0
      [] x.t = "float" -> x.v.kind # "finite" \/ x.v.digits # <<"0">>
      [] OTHER -> Len(x.v) > 0

\* k in d
HasKey(d, k) == \E i \in 1..Len(d.v) : d.v[i][1] = k

\* d.get(k, default)
Get(d, k, default) ==
    IF HasKey(d, k) THEN d.v[CHOOSE i \in 1..Len(d.v) : d.v[i][1] = k][2] ELSE default

\* d[k] = val: an existing key keeps its place, a new key goes last
SetItem(d, k, val) ==
    IF HasKey(d, k)
    THEN PyDict([i \in 1..Len(d.v) |-> IF d.v[i][1] = k THEN <<k, val>> ELSE d.v[i]])
    ELSE PyDict(Append(d.v, <<k, val>>))

\* the dict without key k
DelKey(d, k) == PyDict(SelectSeq(d.v, LAMBDA it : it[1] # k))

\* a or b
PyOr(a, b) == IF Truthy(a) THEN a ELSE b

\* The keys the plan and its panels are read by.
k_feasible == <<"f","e","a","s","i","b","l","e">>
k_tables == <<"t","a","b","l","e","s">>
k_sql == <<"s","q","l">>
k_viz == <<"v","i","z">>
k_type == <<"t","y","p","e">>
k_title == <<"t","i","t","l","e">>
k_x == <<"x">>
k_y == <<"y">>

-----------------------------------------------------------------------------
(* validate_table_references                                               *)
(* table_profiles is a function from table names to the column names.      *)

\* A bug the code could have: only the first table of the list is looked up.
validate_table_references_first_only(tables, profiles) ==
    IF Len(tables.v) > 0 /\ tables.v[1].v \notin DOMAIN profiles
    THEN ValidationError("table_not_found",
                         [table |-> tables.v[1], available |-> DOMAIN profiles])
    ELSE OK

validate_table_references(tables, profiles) ==
    LET available_tables == DOMAIN profiles
        missing == {i \in 1..Len(tables.v) : tables.v[i].v \notin available_tables}
    IN  IF missing = {} THEN OK
        ELSE ValidationError("table_not_found",
                             [table |-> tables.v[Min(missing)], available |-> available_tables])

-----------------------------------------------------------------------------
(* validate_column_references                                              *)

sql_keywords == {
    <<"s","e","l","e","c","t">>, <<"f","r","o","m">>, <<"w","h","e","r","e">>,
    <<"g","r","o","u","p">>, <<"b","y">>, <<"o","r","d","e","r">>, <<"h","a","v","i","n","g">>,
    <<"a","n","d">>, <<"o","r">>, <<"n","o","t">>, <<"i","n">>, <<"i","s">>, <<"n","u","l","l">>,
    <<"a","s">>, <<"o","n">>, <<"j","o","i","n">>, <<"l","e","f","t">>, <<"r","i","g","h","t">>,
    <<"i","n","n","e","r">>, <<"o","u","t","e","r">>, <<"f","u","l","l">>, <<"c","r","o","s","s">>,
    <<"l","i","m","i","t">>, <<"o","f","f","s","e","t">>, <<"a","s","c">>, <<"d","e","s","c">>,
    <<"d","i","s","t","i","n","c","t">>, <<"c","o","u","n","t">>, <<"s","u","m">>, <<"a","v","g">>,
    <<"m","i","n">>, <<"m","a","x">>, <<"c","a","s","e">>, <<"w","h","e","n">>,
    <<"t","h","e","n">>, <<"e","l","s","e">>, <<"e","n","d">>, <<"l","i","k","e">>,
    <<"b","e","t","w","e","e","n">>, <<"e","x","i","s","t","s">>, <<"u","n","i","o","n">>,
    <<"a","l","l">>, <<"a","n","y">>, <<"t","r","u","e">>, <<"f","a","l","s","e">>,
    <<"c","o","a","l","e","s","c","e">>, <<"c","a","s","t">>, <<"e","x","t","r","a","c","t">>,
    <<"d","a","t","e">>, <<"t","i","m","e">>, <<"t","i","m","e","s","t","a","m","p">>,
    <<"y","e","a","r">>, <<"m","o","n","t","h">>, <<"d","a","y">>, <<"h","o","u","r">>,
    <<"m","i","n","u","t","e">>, <<"s","e","c","o","n","d">>, <<"i","n","t","e","r","v","a","l">> }

RECURSIVE WordRunEnd(_, _)
\* the 1-based position of the last character of the run of \w characters that holds position i
WordRunEnd(s, i) == IF i < Len(s) /\ IsWordChar(s[i + 1]) THEN WordRunEnd(s, i + 1) ELSE i

RECURSIVE FindIdentifiers(_, _)
\* re.findall(r"\b([a-zA-Z_][a-zA-Z0-9_]*)\b", s) from 1-based position i on: the
\* maximal runs of \w characters that do not begin with a digit
FindIdentifiers(s, i) ==
    IF i > Len(s) THEN <<>>
    ELSE IF ~IsWordChar(s[i]) THEN FindIdentifiers(s, i + 1)
    ELSE LET e == WordRunEnd(s, i)
         IN  IF IsDigit(s[i]) THEN FindIdentifiers(s, e + 1)
             ELSE <<SubSeq(s, i, e)>> \o FindIdentifiers(s, e + 1)

\* the threshold of unknown words the heuristic tolerates
UnknownRefsTolerated == 3
\* the number of unknown words the error names
UnknownRefsNamed == 5

\* A bug the code could have: the heuristic fails as soon as three words remain.
validate_column_references_three(s, profiles) ==
    LET all_columns == UNION {{Lower(c) : c \in Range(profiles[tb])} : tb \in DOMAIN profiles}
        table_names == {Lower(tb) : tb \in DOMAIN profiles}
        words == FindIdentifiers(StripLiterals(s), 1)
        IsUnknown(word) ==
            /\ Lower(word) \notin sql_keywords
            /\ Lower(word) \notin all_columns
            /\ Lower(word) \notin table_names
            /\ Len(word) > 2
        unknown_refs == SelectSeq(words, IsUnknown)
    IN  IF Len(unknown_refs) >= UnknownRefsTolerated
        THEN ValidationError("unknown_columns", SubSeq(unknown_refs, 1,
                 IF Len(unknown_refs) < UnknownRefsNamed THEN Len(unknown_refs) ELSE UnknownRefsNamed))
        ELSE OK

validate_column_references(s, profiles) ==
    LET all_columns == UNION {{Lower(c) : c \in Range(profiles[tb])} : tb \in DOMAIN profiles}
        table_names == {Lower(tb) : tb \in DOMAIN profiles}
        words == FindIdentifiers(StripLiterals(s), 1)
        IsUnknown(word) ==
            /\ Lower(word) \notin sql_keywords
            /\ Lower(word) \notin all_columns
            /\ Lower(word) \notin table_names
            /\ Len(word) > 2
        unknown_refs == SelectSeq(words, IsUnknown)
    IN  IF Len(unknown_refs) > UnknownRefsTolerated
        THEN ValidationError("unknown_columns", SubSeq(unknown_refs, 1,
                 IF Len(unknown_refs) < UnknownRefsNamed THEN Len(unknown_refs) ELSE UnknownRefsNamed))
        ELSE OK

-----------------------------------------------------------------------------
(* validate_visualization                                                  *)

valid_types == {
    <<"b","a","r">>, <<"l","i","n","e">>, <<"s","t","a","t">>,
    <<"t","a","b","l","e">>, <<"p","i","e">>, <<"g","a","u","g","e">> }

axis_types == { <<"b","a","r">>, <<"l","i","n","e">>, <<"p","i","e">> }

\* A bug the code could have: the axis rule asks for both x and y.
validate_visualization_both_axes(viz, s) ==
    LET viz_type == Lower(Get(viz, k_type, PyStr(<<>>)).v)
    IN  IF viz_type # <<>> /\ viz_type \notin valid_types
        THEN ValidationError("invalid_type", [type |-> viz_type, valid |-> valid_types])
        ELSE IF /\ viz_type \in axis_types
                /\ (~Truthy(Get(viz, k_x, PyNone)) \/ ~Truthy(Get(viz, k_y, PyNone)))
        THEN ValidationError("axis_required", viz_type)
        ELSE OK

\* The sql argument is not read by the function.
validate_visualization(viz, s) ==
    LET viz_type == Lower(Get(viz, k_type, PyStr(<<>>)).v)
    IN  IF viz_type # <<>> /\ viz_type \notin valid_types
        THEN ValidationError("invalid_type", [type |-> viz_type, valid |-> valid_types])
        ELSE IF /\ viz_type \in axis_types
                /\ ~Truthy(Get(viz, k_x, PyNone)) /\ ~Truthy(Get(viz, k_y, PyNone))
        THEN ValidationError("axis_required", viz_type)
        ELSE OK

-----------------------------------------------------------------------------
(* validate_plan                                                           *)

\* the first error of a sequence of check results, else OK
FirstError(results) ==
    LET bad == {i \in 1..Len(results) : ~results[i].ok}
    IN  IF bad = {} THEN OK ELSE results[Min(bad)]

\* validate_sql_readonly, then validate_column_references
ValidateSql(s, profiles) ==
    FirstError(<<validate_sql_readonly(s.v), validate_column_references(s.v, profiles)>>)

\* the body of the loop over the panels of a viz list
ValidatePanel(panel, main_sql, profiles) ==
    LET panel_sql == PyOr(Get(panel, k_sql, PyNone), main_sql)
    IN  IF ~Truthy(panel_sql)
        THEN ValidationError("panel_no_sql", Get(panel, k_title, PyNone))
        ELSE FirstError(<<
                 IF Truthy(Get(panel, k_sql, PyNone))
                 THEN ValidateSql(Get(panel, k_sql, PyNone), profiles) ELSE OK,
                 validate_visualization(panel, panel_sql) >>)

\* the branch for a viz that is not a list
ValidateSinglePanel(viz, main_sql) ==
    IF ~Truthy(main_sql)
    THEN ValidationError("single_panel_requires_main_sql", PyNone)
    ELSE validate_visualization(viz, main_sql)

\* A bug the code could have: the feasibility short-circuit is missing.
validate_plan_no_short_circuit(p, profiles) ==
    LET main_sql == Get(p, k_sql, PyNone)
        viz == Get(p, k_viz, PyNone)
    IN  FirstError(<<
            validate_table_references(Get(p, k_tables, PyList(<<>>)), profiles),
            IF Truthy(main_sql) THEN ValidateSql(main_sql, profiles) ELSE OK,
            IF ~Truthy(viz) THEN OK
            ELSE IF viz.t = "list"
            THEN FirstError([i \in 1..Len(viz.v) |-> ValidatePanel(viz.v[i], main_sql, profiles)])
            ELSE ValidateSinglePanel(viz, main_sql) >>)

\* A bug the code could have: the plan's SQL is checked before its tables.
validate_plan_sql_first(p, profiles) ==
    IF ~Truthy(Get(p, k_feasible, PyBool(TRUE))) THEN OK
    ELSE LET main_sql == Get(p, k_sql, PyNone)
             viz == Get(p, k_viz, PyNone)
         IN  FirstError(<<
                 IF Truthy(main_sql) THEN ValidateSql(main_sql, profiles) ELSE OK,
                 validate_table_references(Get(p, k_tables, PyList(<<>>)), profiles),
                 IF ~Truthy(viz) THEN OK
                 ELSE IF viz.t = "list"
                 THEN FirstError([i \in 1..Len(viz.v) |-> ValidatePanel(viz.v[i], main_sql, profiles)])
                 ELSE ValidateSinglePanel(viz, main_sql) >>)

validate_plan(p, profiles) ==
    IF ~Truthy(Get(p, k_feasible, PyBool(TRUE))) THEN OK
    ELSE LET main_sql == Get(p, k_sql, PyNone)
             viz == Get(p, k_viz, PyNone)
         IN  FirstError(<<
                 validate_table_references(Get(p, k_tables, PyList(<<>>)), profiles),
                 IF Truthy(main_sql) THEN ValidateSql(main_sql, profiles) ELSE OK,
                 IF ~Truthy(viz) THEN OK
                 ELSE IF viz.t = "list"
                 THEN FirstError([i \in 1..Len(viz.v) |-> ValidatePanel(viz.v[i], main_sql, profiles)])
                 ELSE ValidateSinglePanel(viz, main_sql) >>)

-----------------------------------------------------------------------------
(* Dashboard generator: the query rewrite of bar panels                    *)
(* Offsets o are 0-based as in Python: the character at offset o is s[o+1] *)

time_keywords == {
    <<"d","a","t","e">>, <<"t","i","m","e">>, <<"c","r","e","a","t","e","d">>,
    <<"u","p","d","a","t","e","d">>, <<"a","t">>, <<"t","i","m","e","s","t","a","m","p">>,
    <<"d","a","t","e","t","i","m","e">>, <<"w","h","e","n">> }

\* SELECT, under re.IGNORECASE, at offset o
SelectAt(s, o) ==
    o + 6 <= Len(s) /\ Upper(SubSeq(s, o + 1, o + 6)) = <<"S","E","L","E","C","T">>

RECURSIVE SpaceRun(_, _)
\* the number of \s characters from offset o on
SpaceRun(s, o) == IF o < Len(s) /\ IsSpace(s[o + 1]) THEN 1 + SpaceRun(s, o + 1) ELSE 0

\* re.escape(col), under re.IGNORECASE, at offset o
ColAt(s, o, col) ==
    o + Len(col) <= Len(s) /\ Lower(SubSeq(s, o + 1, o + Len(col))) = Lower(col)

\* (\s*[,\s]) at offset o: it matches exactly when a comma or a space stands there
SuffixAt(s, o) == o < Len(s) /\ (IsSpace(s[o + 1]) \/ s[o + 1] = ",")

\* the class [\w\s,.\(\)\'\"*]
InBetweenClass(c) == IsWordChar(c) \/ IsSpace(c) \/ c \in {",", ".", "(", ")", "'", "\"", "*"}

\* The ways (SELECT\s+)([\w\s,.\(\)\'\"*]+,\s*)?(col)(\s*[,\s]) matches s: p is the
\* offset of SELECT, k the length of \s+, g = 1 when the optional group takes part,
\* c the offset of its closing comma and q the offset of col.
SelectListMatches(s, col) ==
    LET n == Len(s)
        Commas(p, k) ==
            {c \in (p + 6 + k + 1)..(n - 1) :
                /\ s[c + 1] = ","
                /\ \A o \in (p + 6 + k)..(c - 1) : InBetweenClass(s[o + 1])}
        Columns(c) ==
            {q \in (c + 1)..n :
                /\ \A o \in (c + 1)..(q - 1) : IsSpace(s[o + 1])
                /\ ColAt(s, q, col)
                /\ SuffixAt(s, q + Len(col))}
        AtSelect(p) ==
            UNION {
                UNION {{[p |-> p, k |-> k, g |-> 1, c |-> c, q |-> q] : q \in Columns(c)}
                          : c \in Commas(p, k)}
                \cup {[p |-> p, k |-> k, g |-> 0, c |-> 0, q |-> q] :
                          q \in {o \in {p + 6 + k} : ColAt(s, o, col) /\ SuffixAt(s, o + Len(col))}}
                : k \in 1..SpaceRun(s, p + 6)}
    IN  UNION {AtSelect(p) : p \in {o \in 0..n : SelectAt(s, o)}}

\* The ways (SELECT\s+)(col)(\s*[,\s]) matches s.
SelectFirstMatches(s, col) == {m \in SelectListMatches(s, col) : m.g = 0}

\* The match the backtracking search of re returns: the leftmost SELECT, then the
\* longest \s+, then the optional group before its absence, then the longest group.
Preferred(m1, m2) ==
    \/ m1.p < m2.p
    \/ m1.p = m2.p /\ m1.k > m2.k
    \/ m1.p = m2.p /\ m1.k = m2.k /\ m1.g > m2.g
    \/ m1.p = m2.p /\ m1.k = m2.k /\ m1.g = m2.g /\ m1.c > m2.c
    \/ m1.p = m2.p /\ m1.k = m2.k /\ m1.g = m2.g /\ m1.c = m2.c /\ m1.q >= m2.q

FirstMatch(matches) == CHOOSE m \in matches : \A other \in matches : Preferred(m, other)

\* re.sub(pattern, replacement, s, count=1) where the replacement keeps every group
\* and puts before + col + middle + col in place of the col group
SubColumn(s, matches, col, before, middle) ==
    IF matches = {} THEN s
    ELSE LET q == FirstMatch(matches).q
             found == SubSeq(s, q + 1, q + Len(col))
         IN  SubSeq(s, 1, q) \o before \o found \o middle \o found
                 \o SubSeq(s, q + Len(col) + 1, Len(s))

strftime_open == <<"s","t","r","f","t","i","m","e","(">>
strftime_rest == <<","," ","'","%","Y","-","%","m","-","%","d","'",")"," ","A","S"," ">>
cast_open == <<"C","A","S","T","(">>
cast_rest == <<" ","A","S"," ","V","A","R","C","H","A","R",")"," ","A","S"," ">>

\* x_column is a string or None
normalize_time_columns(s, x_column) ==
    IF Len(s) = 0 \/ ~Truthy(x_column) THEN s
    ELSE LET x == x_column.v
         IN  IF ~\E kw \in time_keywords : Contains(Lower(x), kw) THEN s
             ELSE IF \/ Contains(Lower(s), strftime_open \o x)
                     \/ Contains(Lower(s), strftime_open \o <<" ">> \o x)
             THEN s
             ELSE LET result == SubColumn(s, SelectListMatches(s, x), x,
                                          strftime_open, strftime_rest)
                  IN  IF result = s
                      THEN SubColumn(s, SelectFirstMatches(s, x), x,
                                     strftime_open, strftime_rest)
                      ELSE result

\* re.search(r'SELECT\s+(\w+)', s, re.IGNORECASE): the column found, else None
FirstSelectColumn(s) ==
    LET hits == {o \in 0..Len(s) :
                    /\ SelectAt(s, o)
                    /\ SpaceRun(s, o + 6) >= 1
                    /\ o + 6 + SpaceRun(s, o + 6) < Len(s)
                    /\ IsWordChar(s[o + 6 + SpaceRun(s, o + 6) + 1])}
    IN  IF hits = {} THEN PyNone
        ELSE LET first == Min(hits) + 6 + SpaceRun(s, Min(hits) + 6) + 1
             IN  PyStr(SubSeq(s, first, WordRunEnd(s, first)))

\* the x column of a bar panel: the x of the spec, else the first column selected
BarXColumn(panel_spec, s) ==
    IF Truthy(Get(panel_spec, k_x, PyNone))
    THEN Get(panel_spec, k_x, PyNone) ELSE FirstSelectColumn(s)

\* the query text generate_panel gives a bar panel
BarQueryText(panel_spec, s) ==
    LET x_col == BarXColumn(panel_spec, s)
        normalized_sql == IF Truthy(x_col) THEN normalize_time_columns(s, x_col) ELSE s
    IN  IF /\ Truthy(x_col)
           /\ Lower(x_col.v) # <<"s","t","r","f","t","i","m","e">>
           /\ ~Contains(normalized_sql, cast_open \o x_col.v)
           /\ ~Contains(Lower(normalized_sql), strftime_open \o x_col.v)
           /\ normalized_sql = s
        THEN SubColumn(s, SelectFirstMatches(s, x_col.v), x_col.v, cast_open, cast_rest)
        ELSE normalized_sql

-----------------------------------------------------------------------------
(* Dashboard generator: panels and dashboards                              *)

t_bar == <<"b","a","r">>
t_line == <<"l","i","n","e">>
t_table == <<"t","a","b","l","e">>

\* a chain that hands the panel type on as the renderer type, but for bar
RendererType_same_name(panel_type) ==
    IF panel_type = t_bar THEN <<"b","a","r","c","h","a","r","t">> ELSE panel_type

\* the if/elif chain of generate_panel: the renderer type of each panel type
RendererType(panel_type) ==
    CASE panel_type = t_bar -> <<"b","a","r","c","h","a","r","t">>
      [] panel_type = t_line -> <<"t","i","m","e","s","e","r","i","e","s">>
      [] panel_type = <<"s","t","a","t">> -> <<"s","t","a","t">>
      [] panel_type = t_table -> t_table
      [] panel_type = <<"p","i","e">> -> <<"p","i","e","c","h","a","r","t">>
      [] panel_type = <<"g","a","u","g","e">> -> <<"g","a","u","g","e">>
      [] panel_type = <<"h","e","a","t","m","a","p">> -> <<"h","e","a","t","m","a","p">>
      [] panel_type = <<"h","i","s","t","o","g","r","a","m">> -> <<"h","i","s","t","o","g","r","a","m">>
      [] panel_type = <<"s","t","a","t","e","_","t","i","m","e","l","i","n","e">>
            -> <<"s","t","a","t","e","-","t","i","m","e","l","i","n","e">>
      [] panel_type = <<"s","t","a","t","u","s","_","h","i","s","t","o","r","y">>
            -> <<"s","t","a","t","u","s","-","h","i","s","t","o","r","y">>
      [] panel_type = <<"c","a","n","d","l","e","s","t","i","c","k">>
            -> <<"c","a","n","d","l","e","s","t","i","c","k">>
      [] panel_type = <<"t","r","e","n","d">> -> <<"t","r","e","n","d">>
      [] panel_type = <<"x","y">> -> <<"x","y","c","h","a","r","t">>
      [] panel_type = <<"b","a","r","_","g","a","u","g","e">> -> <<"b","a","r","g","a","u","g","e">>
      [] OTHER -> t_table

\* the panel types the if/elif chain of generate_panel tells apart
panel_types ==
    { <<"b","a","r">>,
      <<"l","i","n","e">>,
      <<"s","t","a","t">>,
      <<"t","a","b","l","e">>,
      <<"p","i","e">>,
      <<"g","a","u","g","e">>,
      <<"h","e","a","t","m","a","p">>,
      <<"h","i","s","t","o","g","r","a","m">>,
      <<"s","t","a","t","e","_","t","i","m","e","l","i","n","e">>,
      <<"s","t","a","t","u","s","_","h","i","s","t","o","r","y">>,
      <<"c","a","n","d","l","e","s","t","i","c","k">>,
      <<"t","r","e","n","d">>,
      <<"x","y">>,
      <<"b","a","r","_","g","a","u","g","e">> }

\* panel["options"] of each branch; a bar panel gets its xField besides
PanelOptions(panel_type) ==
    CASE panel_type = <<"b","a","r">> ->
            [legend |-> [displayMode |-> "list", placement |-> "bottom"],
             tooltip |-> [mode |-> "single"]]
      [] panel_type = <<"l","i","n","e">> ->
            [legend |-> [displayMode |-> "list", placement |-> "bottom"],
             tooltip |-> [mode |-> "single"]]
      [] panel_type = <<"s","t","a","t">> ->
            [colorMode |-> "value",
             graphMode |-> "area",
             justifyMode |-> "auto",
             textMode |-> "auto",
             reduceOptions |-> [calcs |-> <<"lastNotNull">>, fields |-> "", values |-> FALSE]]
      [] panel_type = <<"t","a","b","l","e">> ->
            [showHeader |-> TRUE, sortBy |-> <<>>]
      [] panel_type = <<"p","i","e">> ->
            [legend |-> [displayMode |-> "list", placement |-> "right"],
             pieType |-> "pie",
             reduceOptions |-> [calcs |-> <<"lastNotNull">>, fields |-> "", values |-> TRUE]]
      [] panel_type = <<"g","a","u","g","e">> ->
            [reduceOptions |-> [calcs |-> <<"lastNotNull">>, fields |-> "", values |-> FALSE],
             showThresholdLabels |-> FALSE,
             showThresholdMarkers |-> TRUE]
      [] panel_type = <<"h","e","a","t","m","a","p">> ->
            [calculate |-> FALSE,
             cellGap |-> 1,
             color |-> [mode |-> "scheme", scheme |-> "Oranges", steps |-> 64],
             legend |-> [show |-> TRUE],
             tooltip |-> [show |-> TRUE, yHistogram |-> FALSE],
             yAxis |-> [unit |-> "short"]]
      [] panel_type = <<"h","i","s","t","o","g","r","a","m">> ->
            [bucketCount |-> 30,
             bucketSize |-> "None",
             combine |-> FALSE,
             legend |-> [displayMode |-> "list", placement |-> "bottom"],
             tooltip |-> [mode |-> "single"]]
      [] panel_type = <<"s","t","a","t","e","_","t","i","m","e","l","i","n","e">> ->
            [alignValue |-> "left",
             legend |-> [displayMode |-> "list", placement |-> "bottom"],
             mergeValues |-> TRUE,
             rowHeight |-> "0.9",
             showValue |-> "auto",
             tooltip |-> [mode |-> "single"]]
      [] panel_type = <<"s","t","a","t","u","s","_","h","i","s","t","o","r","y">> ->
            [colWidth |-> "0.9",
             legend |-> [displayMode |-> "list", placement |-> "bottom"],
             rowHeight |-> "0.9",
             showValue |-> "auto",
             tooltip |-> [mode |-> "single"]]
      [] panel_type = <<"c","a","n","d","l","e","s","t","i","c","k">> ->
            [colors |-> [down |-> "red", flat |-> "gray", up |-> "green"],
             includeAllFields |-> FALSE,
             legend |-> [displayMode |-> "list", placement |-> "bottom"]]
      [] panel_type = <<"t","r","e","n","d">> ->
            [legend |-> [displayMode |-> "list", placement |-> "bottom"],
             tooltip |-> [mode |-> "single"]]
      [] panel_type = <<"x","y">> ->
            [dims |-> [x |-> "None", y |-> "None"],
             legend |-> [displayMode |-> "list", placement |-> "bottom"],
             series |-> <<[pointSize |-> [fixed |-> 5], showPoints |-> "always"]>>,
             tooltip |-> [mode |-> "single"]]
      [] panel_type = <<"b","a","r","_","g","a","u","g","e">> ->
            [displayMode |-> "gradient",
             minVizHeight |-> 10,
             minVizWidth |-> 0,
             orientation |-> "horizontal",
             reduceOptions |-> [calcs |-> <<"lastNotNull">>, fields |-> "", values |-> FALSE],
             showUnfilled |-> TRUE]
      [] OTHER -> [showHeader |-> TRUE]

\* panel["fieldConfig"] of each branch but the last, which sets none
PanelFieldConfig(panel_type) ==
    CASE panel_type = <<"b","a","r">> ->
            [defaults |-> [color |-> [mode |-> "palette-classic"]], overrides |-> <<>>]
      [] panel_type = <<"l","i","n","e">> ->
            [defaults |-> [color |-> [mode |-> "palette-classic"],
                 custom |-> [lineWidth |-> 2, fillOpacity |-> 10, pointSize |-> 5]],
             overrides |-> <<>>]
      [] panel_type = <<"s","t","a","t">> ->
            [defaults |-> [color |-> [mode |-> "thresholds"]], overrides |-> <<>>]
      [] panel_type = <<"t","a","b","l","e">> ->
            [defaults |-> <<>>, overrides |-> <<>>]
      [] panel_type = <<"p","i","e">> ->
            [defaults |-> [color |-> [mode |-> "palette-classic"]], overrides |-> <<>>]
      [] panel_type = <<"g","a","u","g","e">> ->
            [defaults |-> [color |-> [mode |-> "thresholds"],
                 thresholds |-> [mode |-> "absolute",
                     steps |-> <<[color |-> "green", value |-> "None"], [color |-> "yellow", value |-> 50], [color |-> "red", value |-> 80]>>]],
             overrides |-> <<>>]
      [] panel_type = <<"h","e","a","t","m","a","p">> ->
            [defaults |-> [custom |-> [hideFrom |-> [legend |-> FALSE, tooltip |-> FALSE, viz |-> FALSE]]],
             overrides |-> <<>>]
      [] panel_type = <<"h","i","s","t","o","g","r","a","m">> ->
            [defaults |-> [color |-> [mode |-> "palette-classic"],
                 custom |-> [fillOpacity |-> 80, lineWidth |-> 1]],
             overrides |-> <<>>]
      [] panel_type = <<"s","t","a","t","e","_","t","i","m","e","l","i","n","e">> ->
            [defaults |-> [color |-> [mode |-> "palette-classic"],
                 custom |-> [fillOpacity |-> 70, lineWidth |-> 0]],
             overrides |-> <<>>]
      [] panel_type = <<"s","t","a","t","u","s","_","h","i","s","t","o","r","y">> ->
            [defaults |-> [color |-> [mode |-> "thresholds"],
                 custom |-> [fillOpacity |-> 70],
                 thresholds |-> [mode |-> "absolute",
                     steps |-> <<[color |-> "green", value |-> "None"], [color |-> "red", value |-> 1]>>]],
             overrides |-> <<>>]
      [] panel_type = <<"c","a","n","d","l","e","s","t","i","c","k">> ->
            [defaults |-> [color |-> [mode |-> "palette-classic"],
                 custom |-> [axisCenteredZero |-> FALSE, axisPlacement |-> "auto"]],
             overrides |-> <<>>]
      [] panel_type = <<"t","r","e","n","d">> ->
            [defaults |-> [color |-> [mode |-> "palette-classic"],
                 custom |-> [lineWidth |-> 2, fillOpacity |-> 10, pointSize |-> 5]],
             overrides |-> <<>>]
      [] panel_type = <<"x","y">> ->
            [defaults |-> [color |-> [mode |-> "palette-classic"]], overrides |-> <<>>]
      [] panel_type = <<"b","a","r","_","g","a","u","g","e">> ->
            [defaults |-> [color |-> [mode |-> "thresholds"],
                 thresholds |-> [mode |-> "absolute",
                     steps |-> <<[color |-> "green", value |-> "None"], [color |-> "yellow", value |-> 50], [color |-> "red", value |-> 80]>>]],
             overrides |-> <<>>]

\* The panel document: its title, grid position, renderer type, its one target and
\* its options and field configuration.  The random id, the description and the
\* datasource are left out.
generate_panel(panel_spec, s, grid_pos) ==
    LET panel_type == Get(panel_spec, k_type, PyStr(t_bar)).v
        query == IF panel_type = t_bar THEN BarQueryText(panel_spec, s) ELSE s
        x_col == BarXColumn(panel_spec, s)
        panel == [title |-> Get(panel_spec, k_title, PyStr(<<"P","a","n","e","l">>)),
                  gridPos |-> grid_pos,
                  type |-> RendererType(panel_type),
                  targets |-> << [queryText |-> query, rawQueryText |-> query] >>,
                  options |-> IF panel_type = t_bar /\ Truthy(x_col)
                              THEN PanelOptions(panel_type) @@ [xField |-> x_col]
                              ELSE PanelOptions(panel_type)]
    IN  IF panel_type \in panel_types
        THEN panel @@ [fieldConfig |-> PanelFieldConfig(panel_type)]
        ELSE panel

GridPos(x, y, w, h) == [x |-> x, y |-> y, w |-> w, h |-> h]

GridColumns == 24
PanelHeight == 8
SinglePanelHeight == 12

RECURSIVE LayoutPanels(_, _, _)
\* the loop of generate_multi_panel_dashboard from the panel with 0-based index i
\* on, with y_pos as the loop has left it
LayoutPanels(panels, i, y_pos) ==
    IF i >= Len(panels) THEN <<>>
    ELSE LET panel_spec == panels[i + 1]
             viz == Get(panel_spec, k_viz, panel_spec)
             s == Get(panel_spec, k_sql, PyStr(<<>>)).v
             panel_type == Get(viz, k_type, PyStr(t_bar)).v
             col == i % 2
         IN  IF panel_type \in {t_table, t_line}
             THEN <<generate_panel(viz, s, GridPos(0, y_pos, GridColumns, PanelHeight))>>
                      \o LayoutPanels(panels, i + 1, y_pos + PanelHeight)
             ELSE <<generate_panel(viz, s,
                        GridPos(col * (GridColumns \div 2), y_pos, GridColumns \div 2, PanelHeight))>>
                      \o LayoutPanels(panels, i + 1,
                                      IF col = 1 THEN y_pos + PanelHeight ELSE y_pos)

generate_multi_panel_dashboard(panels) == [panels |-> LayoutPanels(panels, 0, 0)]

\* The dashboard document is modelled by its list of panels.
generate_dashboard(p) ==
    LET main_sql == Get(p, k_sql, PyStr(<<>>))
        viz == Get(p, k_viz, PyDict(<<>>))
    IN  IF viz.t = "list"
        THEN generate_multi_panel_dashboard(
                 [i \in 1..Len(viz.v) |->
                     IF ~Truthy(Get(viz.v[i], k_sql, PyNone))
                     THEN SetItem(viz.v[i], k_sql, main_sql) ELSE viz.v[i]])
        ELSE [panels |->
                 IF Truthy(viz) /\ Truthy(main_sql)
                 THEN <<generate_panel(viz, main_sql.v, GridPos(0, 0, GridColumns, SinglePanelHeight))>>
                 ELSE <<>>]

-----------------------------------------------------------------------------
(* Numbers of the notation: int(raw), float(raw), str(int) and str(float)  *)
(* A float is kept as its decimal digits without leading and trailing      *)
(* zeros and the position decpt of its decimal point (0.d1d2.. * 10^decpt), *)
(* which is exact for literals of up to 15 significant digits within the   *)
(* exponent range of a double.                                             *)

PyFloat(neg, kind, digits, decpt) ==
    [t |-> "float", v |-> [neg |-> neg, kind |-> kind, digits |-> digits, decpt |-> decpt]]

DigitValue(c) == (CHOOSE i \in 1..10 : DigitChars[i] = c) - 1

\* digit (["_"] digit)*
IsDigitPart(s) ==
    /\ Len(s) >= 1
    /\ \A i \in 1..Len(s) :
          \/ IsDigit(s[i])
          \/ s[i] = "_" /\ i > 1 /\ i < Len(s) /\ IsDigit(s[i - 1]) /\ IsDigit(s[i + 1])

DigitsOf(s) == SelectSeq(s, IsDigit)

RECURSIVE NatValue(_)
NatValue(digits) ==
    IF digits = <<>> THEN 0
    ELSE 10 * NatValue(SubSeq(digits, 1, Len(digits) - 1)) + DigitValue(digits[Len(digits)])

RECURSIVE NatDigits(_)
NatDigits(n) == IF n < 10 THEN <<DigitChars[n + 1]>> ELSE NatDigits(n \div 10) \o <<DigitChars[(n % 10) + 1]>>

HasSign(s) == Len(s) >= 1 /\ s[1] \in {"+", "-"}
Unsigned(s) == IF HasSign(s) THEN Tail(s) ELSE s

\* int(raw) succeeds
IsIntLiteral(raw) == IsDigitPart(Unsigned(raw))
IntOf(raw) ==
    LET n == NatValue(DigitsOf(Unsigned(raw)))
    IN  PyInt(IF HasSign(raw) /\ raw[1] = "-" THEN 0 - n ELSE n)

\* str(n)
IntStr(n) == IF n < 0 THEN <<"-">> \o NatDigits(0 - n) ELSE NatDigits(n)

\* the offset of the first e or E of s, else Len(s)
ExponentAt(s) ==
    LET es == {i \in 1..Len(s) : s[i] \in {"e", "E"}}
    IN  IF es = {} THEN Len(s) ELSE Min(es) - 1

\* the offset of the first "." of s, else Len(s)
PointAt(s) ==
    LET ps == {i \in 1..Len(s) : s[i] = "."}
    IN  IF ps = {} THEN Len(s) ELSE Min(ps) - 1

\* the decimal forms float() takes: digits with an optional point and exponent
IsDecimalLiteral(u) ==
    LET mant == SubSeq(u, 1, ExponentAt(u))
        expo == SubSeq(u, ExponentAt(u) + 2, Len(u))
        whole == SubSeq(mant, 1, PointAt(mant))
        frac == SubSeq(mant, PointAt(mant) + 2, Len(mant))
    IN  /\ \/ IsDigitPart(whole) /\ (frac = <<>> \/ IsDigitPart(frac))
           \/ whole = <<>> /\ PointAt(mant) < Len(mant) /\ IsDigitPart(frac)
        /\ ExponentAt(u) < Len(u) => IsDigitPart(Unsigned(expo))

special_floats == { <<"i","n","f">>, <<"i","n","f","i","n","i","t","y">>, <<"n","a","n">> }

\* float(raw) succeeds
IsFloatLiteral(raw) == Lower(Unsigned(raw)) \in special_floats \/ IsDecimalLiteral(Unsigned(raw))

RECURSIVE LeadingZeros(_)
LeadingZeros(d) == IF d # <<>> /\ d[1] = "0" THEN 1 + LeadingZeros(Tail(d)) ELSE 0

RECURSIVE TrailingZeros(_)
TrailingZeros(d) ==
    IF d # <<>> /\ d[Len(d)] = "0" THEN 1 + TrailingZeros(SubSeq(d, 1, Len(d) - 1)) ELSE 0

FloatOf(raw) ==
    LET neg == HasSign(raw) /\ raw[1] = "-"
        u == Unsigned(raw)
    IN  IF Lower(u) = <<"n","a","n">> THEN PyFloat(FALSE, "nan", <<>>, 0)
        ELSE IF Lower(u) \in special_floats THEN PyFloat(neg, "inf", <<>>, 0)
        ELSE LET mant == SubSeq(u, 1, ExponentAt(u))
                 expo == SubSeq(u, ExponentAt(u) + 2, Len(u))
                 whole == DigitsOf(SubSeq(mant, 1, PointAt(mant)))
                 frac == DigitsOf(SubSeq(mant, PointAt(mant) + 2, Len(mant)))
                 e == IF expo = <<>> THEN 0
                      ELSE IF expo[1] = "-" THEN 0 - NatValue(DigitsOf(expo))
                      ELSE NatValue(DigitsOf(expo))
                 all == whole \o frac
                 lead == LeadingZeros(all)
             IN  IF lead = Len(all) THEN PyFloat(neg, "finite", <<"0">>, 1)
                 ELSE PyFloat(neg, "finite",
                              SubSeq(all, lead + 1, Len(all) - TrailingZeros(all)),
                              Len(whole) + e - lead)

Zeros(n) == [i \in 1..n |-> "0"]

\* str(f), the shortest repr: without an exponent while the decimal point stands
\* from three places left of the digits to sixteen places into them
FloatStr(f) ==
    LET d == f.digits
        sign == IF f.neg THEN <<"-">> ELSE <<>>
        ex == f.decpt - 1
        body ==
            IF f.decpt > 16 \/ f.decpt < -3
            THEN <<d[1]>> \o (IF Len(d) > 1 THEN <<".">> \o Tail(d) ELSE <<>>) \o <<"e">>
                     \o (IF ex < 0 THEN <<"-">> ELSE <<"+">>)
                     \o (LET m == NatDigits(IF ex < 0 THEN 0 - ex ELSE ex)
                         IN  IF Len(m) < 2 THEN <<"0">> \o m ELSE m)
            ELSE IF f.decpt <= 0 THEN <<"0", ".">> \o Zeros(0 - f.decpt) \o d
            ELSE IF f.decpt >= Len(d) THEN d \o Zeros(f.decpt - Len(d)) \o <<".", "0">>
            ELSE SubSeq(d, 1, f.decpt) \o <<".">> \o SubSeq(d, f.decpt + 1, Len(d))
    IN  CASE f.kind = "nan" -> <<"n","a","n">>
          [] f.kind = "inf" -> sign \o <<"i","n","f">>
          [] OTHER -> sign \o body

-----------------------------------------------------------------------------
(* TOON parser                                                             *)

\* the value standing for a raised ToonParseError
ToonParseError == [t |-> "error", v |-> "ToonParseError"]
IsError(x) == x.t = "error"

k__type == <<"_","t","y","p","e">>
k_value == <<"v","a","l","u","e">>

\* s.strip()
Strip(s) ==
    LET keep == {i \in 1..Len(s) : ~IsSpace(s[i])}
    IN  IF keep = {} THEN <<>>
        ELSE SubSeq(s, Min(keep), CHOOSE m \in keep : \A n \in keep : n <= m)

RECURSIVE ReplacePair(_, _, _)
\* s.replace(a, b) for a two-character a and a one-character b
ReplacePair(s, a, b) ==
    IF Len(s) < 2 THEN s
    ELSE IF s[1] = a[1] /\ s[2] = a[2] THEN <<b>> \o ReplacePair(SubSeq(s, 3, Len(s)), a, b)
    ELSE <<s[1]>> \o ReplacePair(Tail(s), a, b)

_parse_value(raw0) ==
    LET raw == Strip(raw0)
    IN  IF raw = <<"t","r","u","e">> THEN PyBool(TRUE)
        ELSE IF raw = <<"f","a","l","s","e">> THEN PyBool(FALSE)
        ELSE IF raw = <<"n","u","l","l">> \/ raw = <<"n","o","n","e">> THEN PyNone
        ELSE IF IsIntLiteral(raw) THEN IntOf(raw)
        ELSE IF IsFloatLiteral(raw) THEN FloatOf(raw)
        ELSE PyStr(raw)

RECURSIVE FindMatching(_, _, _, _, _, _)
\* the loop of _find_matching_brace and _find_matching_bracket from offset i on,
\* with its depth and string_char ("" outside a string); -1 stands for the raise
FindMatching(s, i, depth, string_char, open, close) ==
    IF i >= Len(s) THEN -1
    ELSE LET char == s[i + 1]
         IN  IF string_char # ""
             THEN IF char = "\\" /\ i + 1 < Len(s)
                  THEN FindMatching(s, i + 2, depth, string_char, open, close)
                  ELSE FindMatching(s, i + 1, depth,
                                    IF char = string_char THEN "" ELSE string_char, open, close)
             ELSE IF char \in {"\"", "'"} THEN FindMatching(s, i + 1, depth, char, open, close)
             ELSE IF char = open THEN FindMatching(s, i + 1, depth + 1, "", open, close)
             ELSE IF char = close
                  THEN IF depth - 1 = 0 THEN i
                       ELSE FindMatching(s, i + 1, depth - 1, "", open, close)
             ELSE FindMatching(s, i + 1, depth, "", open, close)

_find_matching_brace(s, start) == FindMatching(s, start, 0, "", "{", "}")
_find_matching_bracket(s, start) == FindMatching(s, start, 0, "", "[", "]")

RECURSIVE StringEndFrom(_, _, _)
\* the loop of _find_string_end from offset i on; -1 stands for the raise
StringEndFrom(s, i, quote) ==
    IF i >= Len(s) THEN -1
    ELSE IF s[i + 1] = "\\" /\ i + 1 < Len(s) THEN StringEndFrom(s, i + 2, quote)
    ELSE IF s[i + 1] = quote THEN i
    ELSE StringEndFrom(s, i + 1, quote)

_find_string_end(s, start, quote) == StringEndFrom(s, start + 1, quote)

RECURSIVE WordRun(_, _)
\* the number of \w characters from offset o on
WordRun(s, o) == IF o < Len(s) /\ IsWordChar(s[o + 1]) THEN 1 + WordRun(s, o + 1) ELSE 0

RECURSIVE BareRun(_, _)
\* the length of the match of [^\s,\}\]]+ at offset o
BareRun(s, o) ==
    IF o < Len(s) /\ ~IsSpace(s[o + 1]) /\ s[o + 1] \notin {",", "}", "]"}
    THEN 1 + BareRun(s, o + 1) ELSE 0

\* re.match(r"@(\w+)\s*\{", s[o:]): the offset of the brace, else -1
TagBraceAt(s, o) ==
    LET w == WordRun(s, o + 1)
        b == o + 1 + w + SpaceRun(s, o + 1 + w)
    IN  IF o < Len(s) /\ s[o + 1] = "@" /\ w >= 1 /\ b < Len(s) /\ s[b + 1] = "{" THEN b ELSE -1

\* re.match(r"(\w+)\s*:", s[o:]): the offset after the colon, else -1
KeyEndAt(s, o) ==
    LET w == WordRun(s, o)
        c == o + w + SpaceRun(s, o + w)
    IN  IF w >= 1 /\ c < Len(s) /\ s[c + 1] = ":" THEN c + 1 ELSE -1

\* the result of _parse_value_at: the value (or the error raised) and the count
\* a scan that gives up the rest of the content at a character that begins no key
SkipInvalid_give_up(content, i) == Len(content)

\* "Try to skip invalid character": the scan for a key goes on one character later
SkipInvalid(content, i) == i + 1

Parsed(val, consumed) == [val |-> val, consumed |-> consumed]

\* the comma too is skipped after a member and after an array item
SkipSpaces(s, o, commas) ==
    LET stop == {i \in o..Len(s) :
                   i = Len(s) \/ ~(IsSpace(s[i + 1]) \/ (commas /\ s[i + 1] = ","))}
    IN  Min(stop)

\* the value standing for a raised RecursionError: the interpreter raises it when
\* a call would take the stack beyond its recursion limit
RecursionError == [t |-> "error", v |-> "RecursionError"]

\* A function of the parser takes one stack level and a call it makes of a
\* method of str or of an exception class one more while it runs; re.match takes
\* four (match, _compile and the calls these make).

\* the levels _parse_value takes: its frame and str.strip, and one more when
\* int(raw) raises the ValueError
LevelsOfParseValue(raw0) ==
    LET raw == Strip(raw0)
    IN  IF raw \in {<<"t","r","u","e">>, <<"f","a","l","s","e">>,
                    <<"n","u","l","l">>, <<"n","o","n","e">>} \/ IsIntLiteral(raw)
        THEN 2 ELSE 3

RECURSIVE _parse_value_at(_, _, _), ObjectLoop(_, _, _, _), ArrayLoop(_, _, _, _)

\* the while loop of _parse_object_content at offset i with the dict built so far;
\* levels is the number of stack levels left to the function
ObjectLoop(content, i0, result, levels) ==
    LET i == SkipSpaces(content, i0, FALSE)
    IN  IF i0 >= Len(content) \/ i >= Len(content) THEN result
        ELSE IF levels < 5 THEN RecursionError
        ELSE IF KeyEndAt(content, i) = -1
        THEN ObjectLoop(content, SkipInvalid(content, i), result, levels)
        ELSE LET key == SubSeq(content, i + 1, i + WordRun(content, i))
                 at == SkipSpaces(content, KeyEndAt(content, i), FALSE)
                 got == _parse_value_at(content, at, levels - 1)
             IN  IF IsError(got.val) THEN got.val
                 ELSE ObjectLoop(content, SkipSpaces(content, at + got.consumed, TRUE),
                                 SetItem(result, key, got.val), levels)

_parse_object_content(content, levels) ==
    IF levels < 2 THEN RecursionError
    ELSE ObjectLoop(Strip(content), 0, PyDict(<<>>), levels)

\* the while loop of _parse_array at offset i with the list built so far
ArrayLoop(content, i0, result, levels) ==
    LET i == SkipSpaces(content, i0, FALSE)
    IN  IF i0 >= Len(content) \/ i >= Len(content) THEN result
        ELSE LET got == _parse_value_at(content, i, levels - 1)
             IN  IF IsError(got.val) THEN got.val
                 ELSE IF got.consumed > 0
                 THEN ArrayLoop(content, SkipSpaces(content, i + got.consumed, TRUE),
                                PyList(Append(result.v, got.val)), levels)
                 ELSE ArrayLoop(content, SkipSpaces(content, i + 1, TRUE), result, levels)

_parse_array(content, levels) ==
    IF levels < 2 THEN RecursionError
    ELSE ArrayLoop(Strip(content), 0, PyList(<<>>), levels)

_parse_value_at(s, start, levels) ==
    LET i == SkipSpaces(s, start, FALSE)
    IN  IF levels < 2 THEN Parsed(RecursionError, 0)
        ELSE IF i >= Len(s) THEN Parsed(PyNone, i - start)
        ELSE LET char == s[i + 1]
             IN  IF char = "@" /\ levels < 5 THEN Parsed(RecursionError, 0)
                 ELSE IF char = "@" /\ TagBraceAt(s, i) # -1
                 THEN LET brace_start == TagBraceAt(s, i)
                          brace_end == _find_matching_brace(s, brace_start)
                          obj == _parse_object_content(SubSeq(s, brace_start + 2, brace_end),
                                                       levels - 1)
                      IN  IF brace_end = -1 THEN Parsed(ToonParseError, 0)
                          ELSE IF IsError(obj) THEN Parsed(obj, 0)
                          ELSE Parsed(SetItem(obj, k__type,
                                              PyStr(SubSeq(s, i + 2, i + 1 + WordRun(s, i + 1)))),
                                      brace_end + 1 - start)
                 ELSE IF char = "{"
                 THEN LET brace_end == _find_matching_brace(s, i)
                          obj == _parse_object_content(SubSeq(s, i + 2, brace_end), levels - 1)
                      IN  IF levels < 3 THEN Parsed(RecursionError, 0)
                          ELSE IF brace_end = -1 THEN Parsed(ToonParseError, 0)
                          ELSE IF IsError(obj) THEN Parsed(obj, 0)
                          ELSE Parsed(obj, brace_end + 1 - start)
                 ELSE IF char = "["
                 THEN LET bracket_end == _find_matching_bracket(s, i)
                          arr == _parse_array(SubSeq(s, i + 2, bracket_end), levels - 1)
                      IN  IF levels < 3 THEN Parsed(RecursionError, 0)
                          ELSE IF bracket_end = -1 THEN Parsed(ToonParseError, 0)
                          ELSE IF IsError(arr) THEN Parsed(arr, 0)
                          ELSE Parsed(arr, bracket_end + 1 - start)
                 ELSE IF char \in {"\"", "'"}
                 THEN LET end == _find_string_end(s, i, char)
                      IN  IF end = -1
                          THEN Parsed(IF levels < 3 THEN RecursionError ELSE ToonParseError, 0)
                          ELSE Parsed(PyStr(ReplacePair(
                                          ReplacePair(SubSeq(s, i + 2, end), <<"\\", char>>, char),
                                          <<"\\", "\\">>, "\\")),
                                      end + 1 - start)
                 ELSE IF levels < 5 THEN Parsed(RecursionError, 0)
                 ELSE IF BareRun(s, i) > 0
                 THEN LET raw == SubSeq(s, i + 1, i + BareRun(s, i))
                      IN  IF levels - 1 < LevelsOfParseValue(raw) THEN Parsed(RecursionError, 0)
                          ELSE Parsed(_parse_value(raw), BareRun(s, i))
                 ELSE Parsed(PyNone, 0)

\* re.match(r"@(\w+)\s*\{(.+)\}\s*$", text, re.DOTALL) on the stripped text: the
\* offset of the opening brace, else -1
TopLevelTagBrace(s) ==
    IF TagBraceAt(s, 0) # -1 /\ s[Len(s)] = "}" /\ Len(s) - 1 - (TagBraceAt(s, 0) + 1) >= 1
    THEN TagBraceAt(s, 0) ELSE -1

\* parse_toon run with the given number of stack levels left to it, its own
\* frame included: the recursion limit less the depth of the caller
ParseWithin(text0, levels) ==
    LET s == Strip(text0)
    IN  IF levels < 5 THEN RecursionError
        ELSE IF s # <<>> /\ TopLevelTagBrace(s) # -1
        THEN LET result == _parse_object_content(SubSeq(s, TopLevelTagBrace(s) + 2, Len(s) - 1),
                                                 levels - 1)
             IN  IF IsError(result) THEN result
                 ELSE SetItem(result, k__type, PyStr(SubSeq(s, 2, 1 + WordRun(s, 1))))
        ELSE IF s # <<>> /\ s[1] = "{" /\ s[Len(s)] = "}"
        THEN _parse_object_content(SubSeq(s, 2, Len(s) - 1), levels - 1)
        ELSE LET got == _parse_value(s)
             IN  IF levels - 1 < LevelsOfParseValue(s) THEN RecursionError
                 ELSE PyDict(<< <<k_value, got>> >>)

\* parse_toon called near the bottom of the stack under the interpreter's
\* default recursion limit, sys.getrecursionlimit() = 1000
parse_toon(text0) == ParseWithin(text0, 1000)

-----------------------------------------------------------------------------
(* TOON serializer                                                         *)

Spaces(n) == [i \in 1..n |-> " "]

RECURSIVE Join(_, _)
\* sep.join(parts)
Join(parts, sep) ==
    IF parts = <<>> THEN <<>>
    ELSE IF Len(parts) = 1 THEN parts[1]
    ELSE parts[1] \o sep \o Join(Tail(parts), sep)

\* what an f-string writes for a scalar
StrOf(x) ==
    CASE x.t = "str" -> x.v
      [] x.t = "int" -> IntStr(x.v)
      [] x.t = "float" -> FloatStr(x.v)
      [] x.t = "bool" -> IF x.v THEN <<"T","r","u","e">> ELSE <<"F","a","l","s","e">>
      [] x.t = "none" -> <<"N","o","n","e">>

quoting_chars == {" ", "\n", ":", "{", "}", "[", "]", "\""}
quoted_words == { <<"t","r","u","e">>, <<"f","a","l","s","e">>, <<"n","u","l","l">> }

NeedsQuotes(v) == (\E i \in 1..Len(v) : v[i] \in quoting_chars) \/ v \in quoted_words \/ v = <<>>

\* value.replace("\\", "\\\\").replace('"', '\\"')
Escaped(v) ==
    Concat([i \in 1..Len(v) |->
               IF v[i] = "\\" THEN <<"\\", "\\">>
               ELSE IF v[i] = "\"" THEN <<"\\", "\"">>
               ELSE <<v[i]>>])

\* the braces around an object's content, after its tag if it has one
Braced(type_name, content, indent, compact) ==
    (IF Truthy(type_name) THEN <<"@">> \o StrOf(type_name) ELSE <<>>)
        \o (IF compact THEN <<"{">> \o content \o <<"}">>
            ELSE <<"{", "\n">> \o content \o <<"\n">> \o Spaces(indent) \o <<"}">>)

RECURSIVE _serialize_value(_, _, _), _serialize_object(_, _, _), _serialize_array(_, _, _)

_serialize_object(data, indent, compact) ==
    LET kept == SelectSeq(data.v, LAMBDA it : it[2].t # "none")
        parts == [i \in 1..Len(kept) |->
                     (IF compact THEN <<>> ELSE Spaces(indent + 2))
                         \o kept[i][1] \o <<":">> \o _serialize_value(kept[i][2], indent + 2, compact)]
    IN  Join(parts, IF compact THEN <<" ">> ELSE <<"\n">>)

_serialize_array(arr, indent, compact) ==
    LET has_complex == \E i \in 1..Len(arr) : arr[i].t \in {"dict", "list"}
    IN  IF arr = <<>> THEN <<"[", "]">>
        ELSE IF compact \/ ~has_complex
        THEN <<"[">> \o Join([i \in 1..Len(arr) |-> _serialize_value(arr[i], indent, TRUE)], <<",">>)
                 \o <<"]">>
        ELSE <<"[", "\n">>
                 \o Join([i \in 1..Len(arr) |->
                             Spaces(indent + 2) \o _serialize_value(arr[i], indent + 2, compact)],
                         <<",", "\n">>)
                 \o <<"\n">> \o Spaces(indent) \o <<"]">>

_serialize_value(value, indent, compact) ==
    CASE value.t = "none" -> <<"n","u","l","l">>
      [] value.t = "bool" -> IF value.v THEN <<"t","r","u","e">> ELSE <<"f","a","l","s","e">>
      [] value.t \in {"int", "float"} -> StrOf(value)
      [] value.t = "str" ->
            IF NeedsQuotes(value.v) THEN <<"\"">> \o Escaped(value.v) \o <<"\"">> ELSE value.v
      [] value.t = "list" -> _serialize_array(value.v, indent, compact)
      [] value.t = "dict" ->
            Braced(Get(value, k__type, PyNone),
                   _serialize_object(DelKey(value, k__type), indent, compact), indent, compact)

\* data.pop("_type", None): what serialize_toon leaves of the caller's dict
PopType(data) == IF data.t = "dict" THEN DelKey(data, k__type) ELSE data

serialize_toon(data, indent, compact) ==
    IF data.t = "dict"
    THEN Braced(Get(data, k__type, PyNone),
                _serialize_object(PopType(data), indent, compact), indent, compact)
    ELSE _serialize_value(data, indent, compact)

\* x == y of Python on parsed trees: a dict compares without its key order, and
\* nan is equal to nothing
RECURSIVE PyEq(_, _)
PyEq(a, b) ==
    /\ a.t = b.t
    /\ CASE a.t = "dict" ->
               /\ {it[1] : it \in Range(a.v)} = {it[1] : it \in Range(b.v)}
               /\ \A it \in Range(a.v) : PyEq(it[2], Get(b, it[1], PyNone))
         [] a.t = "list" ->
               /\ Len(a.v) = Len(b.v)
               /\ \A i \in 1..Len(a.v) : PyEq(a.v[i], b.v[i])
         [] a.t = "float" -> a.v.kind # "nan" /\ a = b
         [] OTHER -> a = b

-----------------------------------------------------------------------------
(* Scenario: validate_sql_readonly on a bounded set of SQL strings         *)

MaxSqlFrags == 3

SqlFragments == {
    <<"S","E","L","E","C","T"," ">>,
    <<" ">>, <<"_">>,
    <<"'","u","p","d","a","t","e","'">>,
    <<"\"","M","E","R","G","E","\"">>,
    <<"c","r","e","a","t","e","d","_","a","t">>,
    <<"l","a","s","t","_","u","p","d","a","t","e","d">>,
    <<"d","r","o","p">>, <<"D","r","o","p">> }
    \cup Range(WRITE_KEYWORDS)

RECURSIVE FragmentStrings(_, _)
\* the concatenations of at most n fragments
FragmentStrings(frags, n) ==
    IF n = 0 THEN {<<>>}
    ELSE LET shorter == FragmentStrings(frags, n - 1)
         IN  shorter \cup {s \o f : s \in shorter, f \in frags}

SqlInputs == FragmentStrings(SqlFragments, MaxSqlFrags)

InitSql ==
    /\ pc = "start"
    /\ sql \in SqlInputs
    /\ outcome = Unused
    /\ plan = Unused /\ table_profiles = Unused /\ dashboard = Unused
    /\ text = Unused /\ tree = Unused /\ emitted = Unused /\ reparsed = Unused
    /\ query_result = Unused /\ db_log = Unused /\ panel_specs = Unused
    /\ CompilerUnused

ValidateSqlReadonly ==
    /\ pc = "start"
    /\ outcome' = validate_sql_readonly(sql)
    /\ pc' = "validated"
    /\ UNCHANGED <<sql, plan, table_profiles, dashboard, text, tree, emitted, reparsed,
                   query_result, db_log, panel_specs, compiler_vars>>

NextSql == ValidateSqlReadonly

SpecSql == InitSql /\ [][NextSql]_vars

-----------------------------------------------------------------------------
(* Scenario: validate_plan, then generate_dashboard, on a bounded set of   *)
(* plans and schema snapshots                                              *)

\* the longest viz list of the plans
MaxPanels == 2

n_shipments == <<"s","h","i","p","m","e","n","t","s">>
n_events == <<"e","v","e","n","t","s">>
n_nonexistent == <<"n","o","n","e","x","i","s","t","e","n","t">>
n_bogus == <<"b","o","g","u","s">>
n_origin == <<"o","r","i","g","i","n">>

\* SELECT origin, n FROM shipments
sql_select == <<"S","E","L","E","C","T"," ","o","r","i","g","i","n",","," ","n"," ","F","R","O","M"," ","s","h","i","p","m","e","n","t","s">>
\* DROP TABLE shipments
sql_drop == <<"D","R","O","P"," ","T","A","B","L","E"," ","s","h","i","p","m","e","n","t","s">>
\* SELECT aaa, bbb, ccc, ddd
sql_unknown == <<"S","E","L","E","C","T"," ","a","a","a",","," ","b","b","b",","," ","c","c","c",","," ","d","d","d">>
\* SELECT n FROM events
sql_panel == <<"S","E","L","E","C","T"," ","n"," ","F","R","O","M"," ","e","v","e","n","t","s">>
\* drop table events
sql_panel_drop == <<"d","r","o","p"," ","t","a","b","l","e"," ","e","v","e","n","t","s">>

PanelTypeEnum == {
    <<"b","a","r">>, <<"l","i","n","e">>, <<"s","t","a","t">>, <<"t","a","b","l","e">>,
    <<"p","i","e">>, <<"g","a","u","g","e">>, <<"h","e","a","t","m","a","p">>,
    <<"h","i","s","t","o","g","r","a","m">>,
    <<"s","t","a","t","e","_","t","i","m","e","l","i","n","e">>,
    <<"s","t","a","t","u","s","_","h","i","s","t","o","r","y">>,
    <<"c","a","n","d","l","e","s","t","i","c","k">>, <<"t","r","e","n","d">>,
    <<"x","y">>, <<"b","a","r","_","g","a","u","g","e">> }

\* An optional dict entry: <<>> when the key is absent, <<value>> when present.
Optional(values) == {<<>>} \cup {<<val>> : val \in values}
Item(k, opt) == IF opt = <<>> THEN <<>> ELSE << <<k, opt[1]>> >>

Schemas == {
    [tb \in {} |-> <<>>],
    [tb \in {n_shipments, n_events} |->
        IF tb = n_shipments THEN <<n_origin, <<"n">>, <<"s","h","i","p","_","d","a","t","e">> >>
        ELSE << <<"i","d">> >>] }

PanelOf(type, own_sql, x, y, title) ==
    PyDict(Item(k_type, type) \o Item(k_title, title) \o Item(k_sql, own_sql)
           \o Item(k_x, x) \o Item(k_y, y))

\* every panel shape, for the plans of one panel
Panels ==
    {PanelOf(type, own_sql, axes[1], axes[2], <<PyStr(<<"T">>)>>) :
        type \in Optional({PyStr(ty) : ty \in PanelTypeEnum \cup {<<"B","A","R">>, n_bogus, <<>>}}),
        own_sql \in Optional({PyStr(sql_panel), PyStr(sql_panel_drop), PyStr(sql_unknown)}),
        axes \in {<< <<>>, <<>> >>, << <<PyStr(n_origin)>>, <<>> >>, << <<>>, <<PyStr(<<"n">>)>> >>}}

\* the panels of the plans of several panels
ListPanels ==
    {PanelOf(<<PyStr(pt[1])>>, pt[2], <<>>, pt[3], <<PyStr(pt[4])>>) :
        pt \in { <<t_table, <<>>, <<>>, <<"A">> >>,
                 <<t_table, <<PyStr(sql_panel)>>, <<>>, <<"B">> >>,
                 <<t_bar, <<>>, <<PyStr(<<"n">>)>>, <<"C">> >>,
                 <<<<"s","t","a","t">>, <<PyStr(sql_panel_drop)>>, <<>>, <<"D">> >>,
                 <<t_line, <<>>, <<>>, <<"E">> >> }}

RECURSIVE SeqsUpTo(_, _)
\* the sequences of at most n elements of S
SeqsUpTo(S, n) ==
    IF n = 0 THEN {<<>>}
    ELSE LET shorter == SeqsUpTo(S, n - 1)
         IN  shorter \cup {Append(q, e) : q \in shorter, e \in S}

\* viz: no list, an empty list, one panel in a list, the legacy single panel, and
\* the lists of two and more panels
VizOptions ==
    Optional({PyList(<<>>)}
             \cup {PyList(<<pn>>) : pn \in Panels}
             \cup Panels
             \cup {PyList(q) : q \in {l \in SeqsUpTo(ListPanels, MaxPanels) : Len(l) >= 2}})

Plans ==
    {PyDict(Item(k_feasible, feasible) \o Item(k_tables, tables) \o Item(k_sql, main_sql)
            \o Item(k_viz, viz)) :
        feasible \in Optional({PyBool(TRUE), PyBool(FALSE)}),
        tables \in Optional({PyList(<<PyStr(n_shipments)>>),
                             PyList(<<PyStr(n_shipments), PyStr(n_nonexistent)>>),
                             PyList(<<PyStr(n_bogus), PyStr(n_nonexistent)>>)}),
        main_sql \in Optional({PyStr(<<>>), PyStr(sql_select), PyStr(sql_drop), PyStr(sql_unknown)}),
        viz \in VizOptions}

InitPlan ==
    /\ pc = "start"
    /\ plan \in Plans
    /\ table_profiles \in Schemas
    /\ outcome = Unused /\ dashboard = Unused
    /\ sql = Unused
    /\ text = Unused /\ tree = Unused /\ emitted = Unused /\ reparsed = Unused
    /\ query_result = Unused /\ db_log = Unused /\ panel_specs = Unused
    /\ CompilerUnused

ValidatePlan ==
    /\ pc = "start"
    /\ outcome' = validate_plan(plan, table_profiles)
    /\ pc' = "validated"
    /\ UNCHANGED <<plan, table_profiles, dashboard, sql, text, tree, emitted, reparsed,
                   query_result, db_log, panel_specs, compiler_vars>>

GenerateDashboard ==
    /\ pc = "validated"
    /\ dashboard' = generate_dashboard(plan)
    /\ pc' = "generated"
    /\ UNCHANGED <<plan, table_profiles, outcome, sql, text, tree, emitted, reparsed,
                   query_result, db_log, panel_specs, compiler_vars>>

NextPlan == ValidatePlan \/ GenerateDashboard

SpecPlan == InitPlan /\ [][NextPlan]_vars

-----------------------------------------------------------------------------
(* Scenario: parse_toon, serialize_toon in either mode, parse_toon again,  *)
(* on a bounded set of documents                                           *)

MaxMembers == 2

\* The texts of values: 12  1.5  ab  true  null  "12"  "a,b"  "a b"  "a\"b"  ""
\* [12,"a,b"]  [@t{},{k:ab}]  @t{}  {j:"true"}
ToonValues ==
    {       <<"1","2">>,
      <<"1",".","5">>,
      <<"a","b">>,
      <<"t","r","u","e">>,
      <<"n","u","l","l">>,
      <<"\"","1","2","\"">>,
      <<"\"","a",",","b","\"">>,
      <<"\"","a"," ","b","\"">>,
      <<"\"","a","\\","\"","b","\"">>,
      <<"\"","\"">>,
      <<"[","1","2",",","\"","a",",","b","\"","]">>,
      <<"[","@","t","{","}",",","{","k",":","a","b","}","]">>,
      <<"@","t","{","}">>,
      <<"{","j",":","\"","t","r","u","e","\"","}">> }

ToonKeys == { <<"k">>, <<"j">> }

ToonMembers == {key \o <<":">> \o val : key \in ToonKeys, val \in ToonValues}

ToonOpeners == { <<"@","t","{">>, <<"{">> }

\* a tagged or a bare object of up to MaxMembers members, or a value alone
ToonDocuments ==
    {open \o Join(members, <<" ">>) \o <<"}">> :
        open \in ToonOpeners, members \in SeqsUpTo(ToonMembers, MaxMembers)}
    \cup ToonValues

InitToon ==
    /\ pc = "start"
    /\ text \in ToonDocuments
    /\ tree = Unused /\ emitted = Unused /\ reparsed = Unused
    /\ sql = Unused /\ plan = Unused /\ table_profiles = Unused
    /\ outcome = Unused /\ dashboard = Unused
    /\ query_result = Unused /\ db_log = Unused /\ panel_specs = Unused
    /\ CompilerUnused

ParseToon ==
    /\ pc = "start"
    /\ tree' = parse_toon(text)
    /\ pc' = "parsed"
    /\ UNCHANGED <<text, emitted, reparsed, sql, plan, table_profiles, outcome, dashboard,
                   query_result, db_log, panel_specs, compiler_vars>>

\* serialize_toon pops "_type" from the dict it is handed
SerializeToon ==
    /\ pc = "parsed"
    /\ ~IsError(tree)
    /\ \E compact \in BOOLEAN : emitted' = serialize_toon(tree, 0, compact)
    /\ tree' = PopType(tree)
    /\ pc' = "serialized"
    /\ UNCHANGED <<text, reparsed, sql, plan, table_profiles, outcome, dashboard,
                   query_result, db_log, panel_specs, compiler_vars>>

ReparseToon ==
    /\ pc = "serialized"
    /\ reparsed' = parse_toon(emitted)
    /\ pc' = "reparsed"
    /\ UNCHANGED <<text, tree, emitted, sql, plan, table_profiles, outcome, dashboard,
                   query_result, db_log, panel_specs, compiler_vars>>

NextToon == ParseToon \/ SerializeToon \/ ReparseToon

SpecToon == InitToon /\ [][NextToon]_vars

-----------------------------------------------------------------------------
(* Scenario: parse_toon on near-miss documents: documents with a brace, a    *)
(* bracket or a quote left open, and documents with stray characters        *)
(* between two members                                                      *)

MaxGarbage == 2

\* value texts with something left open:  [12,"a,b"   "a b   'ab   {j:"true"
\* @t{j:12   [12,[1]
UnterminatedValues ==
    { <<"[","1","2",",","\"","a",",","b","\"">>,
      <<"\"","a"," ","b">>,
      <<"'","a","b">>,
      <<"{","j",":","\"","t","r","u","e","\"">>,
      <<"@","t","{","j",":","1","2">>,
      <<"[","1","2",",","[","1","]">> }

\* members of key k: three that are complete, and one for each value left open
NearMissMembers ==
    {<<"k",":">> \o val :
        val \in UnterminatedValues \cup { <<"1","2">>, <<"\"","a"," ","b","\"">>, <<"[","1","2",",","\"","a",",","b","\"","]">> }}

\* objects of such members with and without their closing brace, and the values
\* left open standing alone
TruncatedDocuments ==
    {open \o Join(members, <<" ">>) \o close :
        open \in ToonOpeners, members \in SeqsUpTo(NearMissMembers, MaxMembers),
        close \in {<<"}">>, <<>>}}
    \cup UnterminatedValues

\* characters that begin no key and belong to no value of these documents
GarbageChars == {"#", "!", "=", "z"}

Garbage == SeqsUpTo(GarbageChars, MaxGarbage) \ {<<>>}

\* the brackets around two members: a bare object, a tagged one, a nested one
Wrappers == { <<<<"{">>, <<"}">>>>, <<<<"@","t","{">>, <<"}">>>>, <<<<"{","o",":","{">>, <<"}","}">>>> }

\* first members  k:12  k:ab  k:"a b"  k:[12,"a,b"]  and second members  j:12
\* j:"a b"  j:@t{}
FirstMembers == { <<"k",":","1","2">>, <<"k",":","a","b">>, <<"k",":","\"","a"," ","b","\"">>, <<"k",":","[","1","2",",","\"","a",",","b","\"","]">> }
SecondMembers == { <<"j",":","1","2">>, <<"j",":","\"","a"," ","b","\"">>, <<"j",":","@","t","{","}">> }

\* what may stand between the first member and the garbage: an unquoted token
\* runs up to the next space or comma, so nothing may be left out after one
SeparatorsAfter(member) ==
    {<<" ">>, <<",">>} \cup (IF member[Len(member)] \in {"\"", "]", "}"} THEN {<<>>} ELSE {})

\* and between the garbage and the second member: a word character before a key
\* would be part of the key
SeparatorsBefore(garbage) ==
    {<<" ">>} \cup (IF IsWordChar(garbage[Len(garbage)]) THEN {} ELSE {<<>>})

GarbledDocuments ==
    UNION {UNION {{w[1] \o m1 \o sep1 \o g \o sep2 \o m2 \o w[2] :
                      sep1 \in SeparatorsAfter(m1), sep2 \in SeparatorsBefore(g),
                      m2 \in SecondMembers, w \in Wrappers}
                    : m1 \in FirstMembers}
              : g \in Garbage}

InitNearMiss ==
    /\ pc = "start"
    /\ text \in TruncatedDocuments \cup GarbledDocuments
    /\ tree = Unused /\ emitted = Unused /\ reparsed = Unused
    /\ sql = Unused /\ plan = Unused /\ table_profiles = Unused
    /\ outcome = Unused /\ dashboard = Unused
    /\ query_result = Unused /\ db_log = Unused /\ panel_specs = Unused
    /\ CompilerUnused

SpecNearMiss == InitNearMiss /\ [][NextToon]_vars

-----------------------------------------------------------------------------
(* Scenario: parse_toon on documents nested to a bounded depth, run with a     *)
(* bounded number of stack levels.  A level of nesting takes two stack levels *)
(* (_parse_value_at and _parse_array or _parse_object_content) whatever the   *)
(* limit is, so the limit is scaled down together with the nesting: under the *)
(* default limit of 1000 the same happens from 497 nested brackets on.        *)

MaxNesting == 4
StackLevels == 12

RECURSIVE NestedValues(_)
\* the values 1 and "s" under up to n brackets, braces and tagged braces
NestedValues(n) ==
    IF n = 0 THEN { <<"1">>, <<"\"","s","\"">> }
    ELSE LET inner == NestedValues(n - 1)
         IN  inner \cup {<<"[">> \o x \o <<"]">> : x \in inner}
                   \cup {<<"{","k",":">> \o x \o <<"}">> : x \in inner}
                   \cup {<<"@","t","{","k",":">> \o x \o <<"}">> : x \in inner}

NestedDocuments == {<<"{","k",":">> \o x \o <<"}">> : x \in NestedValues(MaxNesting)}

InitNesting ==
    /\ pc = "start"
    /\ text \in NestedDocuments
    /\ tree = Unused /\ emitted = Unused /\ reparsed = Unused
    /\ sql = Unused /\ plan = Unused /\ table_profiles = Unused
    /\ outcome = Unused /\ dashboard = Unused
    /\ query_result = Unused /\ db_log = Unused /\ panel_specs = Unused
    /\ CompilerUnused

ParseNested ==
    /\ pc = "start"
    /\ tree' = ParseWithin(text, StackLevels)
    /\ pc' = "parsed"
    /\ UNCHANGED <<text, emitted, reparsed, sql, plan, table_profiles, outcome, dashboard,
                   query_result, db_log, panel_specs, compiler_vars>>

NextNesting == ParseNested

SpecNesting == InitNesting /\ [][NextNesting]_vars

-----------------------------------------------------------------------------
(* Query executor                                                          *)

k_reason == <<"r","e","a","s","o","n">>

\* QueryResult(success, data, columns, row_count, error)
QueryResult(success, data, columns, error) ==
    [success |-> success, data |-> data, columns |-> columns, row_count |-> Len(data),
     error |-> error]

\* the result of both except clauses of execute: str(e) of the exception caught
FailedResult(error) == QueryResult(FALSE, <<>>, <<>>, error)

\* an exception of the database driver, raised by duckdb.connect or conn.execute
DriverError(detail) == [ok |-> FALSE, kind |-> "driver_error", detail |-> detail]

no_sql_in_plan == <<"N","o"," ","S","Q","L"," ","q","u","e","r","y"," ","i","n"," ","p","l","a","n">>
not_feasible == <<"Q","u","e","r","y"," ","i","s"," ","n","o","t"," ","f","e","a","s","i","b","l","e">>

\* A bug the code could have: the database is reached whatever the check says.
AfterReadonlyCheck_unchecked(checked) == "connect"

\* where execute goes after its read-only check: into the except clause that
\* returns, or on to the database
AfterReadonlyCheck(checked) == IF checked.ok THEN "connect" ELSE "done"

\* [dict(zip(columns, row)) for row in rows]
RowDicts(columns, rows) ==
    [r \in 1..Len(rows) |->
        PyDict([c \in 1..Min({Len(columns), Len(rows[r])}) |-> <<columns[c], rows[r][c]>>])]

\* the sql variable of execute_plan when it reaches line 116: the plan's sql, else
\* the sql of the first panel of a viz list, else the sql of a viz dict
PlanSql(p) ==
    LET main_sql == Get(p, k_sql, PyNone)
        viz == Get(p, k_viz, PyNone)
    IN  IF Truthy(main_sql) THEN main_sql
        ELSE IF viz.t = "list" /\ Len(viz.v) > 0 /\ Truthy(Get(viz.v[1], k_sql, PyNone))
        THEN Get(viz.v[1], k_sql, PyNone)
        ELSE IF viz.t = "dict" /\ Truthy(Get(viz, k_sql, PyNone))
        THEN Get(viz, k_sql, PyNone)
        ELSE main_sql

\* what execute_plan returns without calling execute, or None when it delegates
execute_plan_returns(p) ==
    IF ~Truthy(Get(p, k_feasible, PyBool(TRUE)))
    THEN FailedResult(Get(p, k_reason, PyStr(not_feasible)))
    ELSE IF ~Truthy(PlanSql(p)) THEN FailedResult(PyStr(no_sql_in_plan))
    ELSE PyNone

-----------------------------------------------------------------------------
(* Scenario: execute on a bounded set of SQL strings, and execute_plan on  *)
(* a bounded set of plans, against a database that may fail or answer      *)

MaxExecFrags == 2

ExecSqlInputs == FragmentStrings(SqlFragments, MaxExecFrags)

\* what conn.execute may answer: the column names and the rows fetched
ResultSets ==
    { [columns |-> <<>>, rows |-> <<>>],
      [columns |-> << <<"n">> >>, rows |-> << <<PyInt(1)>> >>],
      [columns |-> <<n_origin, <<"n">> >>,
       rows |-> << <<PyStr(<<"a">>), PyInt(1)>>, <<PyStr(<<"b">>), PyInt(2)>> >>] }

reason_text == <<"n","o"," ","d","a","t","a">>

ExecPanels ==
    { PyDict(<< <<k_title, PyStr(<<"T">>)>>, <<k_type, PyStr(t_table)>> >> \o Item(k_sql, own))
        : own \in Optional({PyStr(sql_panel), PyStr(sql_panel_drop)}) }

ExecPlans ==
    { PyDict(Item(k_feasible, f) \o Item(k_reason, r) \o Item(k_tables, tb) \o Item(k_sql, q)
             \o Item(k_viz, viz))
        : f \in Optional({PyBool(TRUE), PyBool(FALSE)}),
          r \in Optional({PyStr(reason_text)}),
          tb \in Optional({PyList(<<PyStr(n_shipments)>>)}),
          q \in Optional({PyStr(sql_select), PyStr(sql_drop), PyStr(<<>>)}),
          viz \in Optional({PyList(<<>>)} \cup ExecPanels
                           \cup {PyList(ps) : ps \in SeqsUpTo(ExecPanels, MaxPanels)}) }

\* the validator outcome before execute has run its check
NotChecked == [ok |-> FALSE, kind |-> "not_checked", detail |-> PyNone]

InitExec ==
    /\ \/ pc = "execute" /\ sql \in ExecSqlInputs /\ plan = PyNone /\ table_profiles = Unused
       \/ pc = "start" /\ sql = Unused /\ plan \in ExecPlans /\ table_profiles \in Schemas
    /\ outcome = NotChecked /\ query_result = Unused /\ db_log = <<>>
    /\ dashboard = Unused /\ panel_specs = Unused
    /\ CompilerUnused
    /\ text = Unused /\ tree = Unused /\ emitted = Unused /\ reparsed = Unused

\* execute_plan up to its return or its call of execute
ExecutePlan ==
    /\ pc = "start"
    /\ IF execute_plan_returns(plan) = PyNone
       THEN sql' = PlanSql(plan).v /\ pc' = "execute" /\ UNCHANGED query_result
       ELSE query_result' = execute_plan_returns(plan) /\ pc' = "done" /\ UNCHANGED sql
    /\ UNCHANGED <<plan, table_profiles, outcome, db_log, dashboard, panel_specs,
                   text, tree, emitted, reparsed, compiler_vars>>

\* execute, lines 46-56: the read-only check and its except clause
ExecuteReadonlyCheck ==
    /\ pc = "execute"
    /\ outcome' = validate_sql_readonly(sql)
    /\ pc' = AfterReadonlyCheck(outcome')
    /\ query_result' = IF pc' = "done" THEN FailedResult(outcome') ELSE query_result
    /\ UNCHANGED <<sql, plan, table_profiles, db_log, dashboard, panel_specs,
                   text, tree, emitted, reparsed, compiler_vars>>

\* get_connection: duckdb.connect opens the database or raises
Connect ==
    /\ pc = "connect"
    /\ \/ /\ db_log' = Append(db_log, "connect")
          /\ pc' = "query"
          /\ UNCHANGED query_result
       \/ /\ db_log' = Append(db_log, "connect failed")
          /\ query_result' = FailedResult(DriverError("connect"))
          /\ pc' = "done"
    /\ UNCHANGED <<sql, plan, table_profiles, outcome, dashboard, panel_specs,
                   text, tree, emitted, reparsed, compiler_vars>>

\* conn.execute and fetchall answer or raise; the connection is closed either way
RunQuery ==
    /\ pc = "query"
    /\ db_log' = db_log \o <<"execute", "close">>
    /\ \/ \E rs \in ResultSets :
             query_result' = QueryResult(TRUE, RowDicts(rs.columns, rs.rows), rs.columns, PyNone)
       \/ query_result' = FailedResult(DriverError("execute"))
    /\ pc' = "done"
    /\ UNCHANGED <<sql, plan, table_profiles, outcome, dashboard, panel_specs,
                   text, tree, emitted, reparsed, compiler_vars>>

NextExec == ExecutePlan \/ ExecuteReadonlyCheck \/ Connect \/ RunQuery

SpecExec == InitExec /\ [][NextExec]_vars

-----------------------------------------------------------------------------
(* Scenario: generate_multi_panel_dashboard on bounded lists of panels      *)

MaxLayoutPanels == 3

sql_ship == <<"S","E","L","E","C","T"," ","s","h","i","p","_","d","a","t","e",","," ","C","O","U","N","T","(","*",")"," ","F","R","O","M"," ","s","h","i","p","m","e","n","t","s"," ","G","R","O","U","P"," ","B","Y"," ","s","h","i","p","_","d","a","t","e">>

\* a panel as generate_dashboard hands it over: the panel's own keys and its sql
FlatPanel(type, x, s) ==
    PyDict(Item(k_type, type) \o << <<k_sql, PyStr(s)>> >> \o Item(k_x, x))

\* a panel in the documented shape: a viz key and an sql key
NestedPanel(type, x, s) ==
    PyDict(<< <<k_viz, PyDict(Item(k_type, type) \o Item(k_x, x))>>, <<k_sql, PyStr(s)>> >>)

\* panels of every type, of two unknown types and of no type, each with three
\* queries
TypedPanels ==
    {FlatPanel(type, qx[2], qx[1]) :
        type \in Optional({PyStr(ty) : ty \in PanelTypeEnum \cup {<<"B","A","R">>, n_bogus}}),
        qx \in { <<sql_select, <<>> >>, <<sql_ship, <<PyStr(n_origin)>> >>, <<<<>>, <<>> >> }}

\* the panels whose places on the grid are looked at
GridPanels ==
    {FlatPanel(<<PyStr(ty)>>, <<>>, <<>>) :
        ty \in {t_bar, t_table, t_line, <<"s","t","a","t">>}}

MaxClauses == 2

n_ship_date == <<"s","h","i","p","_","d","a","t","e">>

\* select lists with the column first, last and in the middle
SelectLists(col) == { col \o <<","," ","n">>, <<"n",","," ">> \o col, <<"n",","," ">> \o col \o <<","," ","m">> }

\* clauses that name the column again
Clauses(col) ==
    { <<" ","W","H","E","R","E"," ">> \o col \o <<" ",">"," ","1">>, <<" ","G","R","O","U","P"," ","B","Y"," ">> \o col, <<" ","G","R","O","U","P"," ","B","Y"," ">> \o <<"n",","," ">> \o col,
      <<" ","O","R","D","E","R"," ","B","Y"," ">> \o col, <<" ","O","R","D","E","R"," ","B","Y"," ">> \o <<"n",","," ">> \o col }

RewriteQueries(col) ==
    {<<"S","E","L","E","C","T"," ">> \o sl \o <<" ","F","R","O","M"," ","t">> \o Concat(cl) :
        sl \in SelectLists(col), cl \in SeqsUpTo(Clauses(col), MaxClauses)}

\* bar panels over these queries, with the column as their x and with no x
RewritePanels ==
    UNION {{NestedPanel(<<PyStr(t_bar)>>, x, q) :
                q \in RewriteQueries(col), x \in Optional({PyStr(col)})}
              : col \in {n_ship_date, n_origin}}

PanelLists ==
    {<<pn>> : pn \in TypedPanels}
        \cup {<<pn, other>> : pn \in TypedPanels, other \in TypedPanels}
        \cup SeqsUpTo(GridPanels, MaxLayoutPanels)
        \cup {<<pn>> : pn \in RewritePanels}

InitPanels ==
    /\ pc = "start"
    /\ panel_specs \in PanelLists
    /\ CompilerUnused
    /\ dashboard = Unused
    /\ plan = Unused /\ table_profiles = Unused /\ outcome = Unused /\ sql = Unused
    /\ text = Unused /\ tree = Unused /\ emitted = Unused /\ reparsed = Unused
    /\ query_result = Unused /\ db_log = Unused

GenerateMultiPanelDashboard ==
    /\ pc = "start"
    /\ dashboard' = generate_multi_panel_dashboard(panel_specs)
    /\ pc' = "generated"
    /\ UNCHANGED <<plan, table_profiles, outcome, sql, text, tree, emitted, reparsed,
                   query_result, db_log, panel_specs, compiler_vars>>

NextPanels == GenerateMultiPanelDashboard

SpecPanels == InitPanels /\ [][NextPanels]_vars

-----------------------------------------------------------------------------
(* Scenario: validate_column_references on SQL strings put together from    *)
(* words, against the schema snapshots                                      *)

MaxWordGroups == 4

\* groups of words, each ending in a space or a comma:  SELECT aaa, bbb, 'zzz' t,
\* ccc ddd   eee,   Origin FROM shipments   "yyyy" Count   1abc ship_date   fff_1 ab,
WordGroups ==
    { <<"S","E","L","E","C","T"," ","a","a","a",","," ","b","b","b",","," ","'","z","z","z","'"," ","t",","," ">>,
      <<"c","c","c"," ","d","d","d"," ">>,
      <<"e","e","e",","," ">>,
      <<"O","r","i","g","i","n"," ","F","R","O","M"," ","s","h","i","p","m","e","n","t","s"," ">>,
      <<"\"","y","y","y","y","\""," ","C","o","u","n","t"," ">>,
      <<"1","a","b","c"," ","s","h","i","p","_","d","a","t","e"," ">>,
      <<"f","f","f","_","1"," ","a","b",","," ">> }

ColumnSqlInputs == {Concat(q) : q \in SeqsUpTo(WordGroups, MaxWordGroups)}

InitColumns ==
    /\ pc = "start"
    /\ sql \in ColumnSqlInputs
    /\ table_profiles \in Schemas
    /\ outcome = Unused
    /\ plan = Unused /\ dashboard = Unused
    /\ text = Unused /\ tree = Unused /\ emitted = Unused /\ reparsed = Unused
    /\ query_result = Unused /\ db_log = Unused /\ panel_specs = Unused
    /\ CompilerUnused

ValidateColumnReferences ==
    /\ pc = "start"
    /\ outcome' = validate_column_references(sql, table_profiles)
    /\ pc' = "checked"
    /\ UNCHANGED <<sql, plan, table_profiles, dashboard, text, tree, emitted, reparsed,
                   query_result, db_log, panel_specs, compiler_vars>>

NextColumns == ValidateColumnReferences

SpecColumns == InitColumns /\ [][NextColumns]_vars

-----------------------------------------------------------------------------
(* Plan compiler: GeminiCompiler.compile_question_sync and the rest of the    *)
(* ask_question route                                                         *)

k_validation_error == <<"v","a","l","i","d","a","t","i","o","n","_","e","r","r","o","r">>

\* the character U+0060, which a string of TLA+ cannot hold
Backquote == "backquote"

\* the fence of a code block: three backquotes
Fence == <<Backquote, Backquote, Backquote>>

\* re.search of fence, (?:toon)?\s*\n?(.*?)\n? and fence with re.DOTALL: the
\* offsets at which a fence opens that is closed later on
FenceOpenings(s) ==
    {p \in 0..Len(s) : StartsAt(s, p, Fence) /\ \E q \in (p + 3)..Len(s) : StartsAt(s, q, Fence)}

\* group(1).strip() of that match: the text from the opening fence, its optional
\* word toon and the white space after it, up to the next fence
CodeMatch(s) ==
    LET p == Min(FenceOpenings(s))
        w == IF StartsAt(s, p + 3, <<"t","o","o","n">>) THEN p + 7 ELSE p + 3
        c == w + SpaceRun(s, w)
        q == Min({e \in c..Len(s) : StartsAt(s, e, Fence)})
    IN  Strip(SubSeq(s, c + 1, q))

\* re.search(r"(@\w+\{.*\})", text, re.DOTALL): the offsets of an @ with a word
\* and an opening brace after it, and a closing brace somewhere behind
TagOpenings(s) ==
    {p \in 0..(Len(s) - 1) :
        /\ s[p + 1] = "@" /\ WordRun(s, p + 1) >= 1
        /\ p + 1 + WordRun(s, p + 1) < Len(s) /\ s[p + 2 + WordRun(s, p + 1)] = "{"
        /\ \E e \in (p + 3 + WordRun(s, p + 1))..Len(s) : s[e] = "}"}

_extract_toon(s) ==
    IF FenceOpenings(s) # {} THEN CodeMatch(s)
    ELSE IF TagOpenings(s) # {}
    THEN LET p == Min(TagOpenings(s))
             last == CHOOSE e \in 1..Len(s) : s[e] = "}" /\ \A f \in (e + 1)..Len(s) : s[f] # "}"
         IN  SubSeq(s, p + 1, last)
    ELSE s

\* the values standing for the exceptions of the compiler
MissingSql == [t |-> "error", v |-> "ValidationError: Plan missing required 'sql' field"]
AttributeError == [t |-> "error", v |-> "AttributeError"]
CompilationError == [t |-> "error", v |-> "CompilationError"]

\* The try block under "Parse TOON": the plan, or the exception it ends in.
\* viz[0].get raises AttributeError when the first panel is no dict.
ParseStep(toon_content) ==
    CHOOSE outcome_ \in
        {IF IsError(p) THEN p
         ELSE LET viz == Get(p, k_viz, PyNone)
              IN  IF viz.t = "list" /\ Len(viz.v) > 0 /\ viz.v[1].t # "dict" THEN AttributeError
                  ELSE LET has_sub_sql == /\ viz.t = "list" /\ Len(viz.v) > 0
                                          /\ Truthy(Get(viz.v[1], k_sql, PyNone))
                       IN  IF ~Truthy(Get(p, k_sql, PyNone)) /\ ~has_sub_sql
                           THEN MissingSql ELSE p
            : p \in {parse_toon(toon_content)}} : TRUE

\* "if validate and self._table_profiles": an empty dict is false
ValidationRuns(validate_arg, profiles) == validate_arg /\ DOMAIN profiles # {}

\* the validation step: validate_plan when it runs, else nothing is raised
ValidateStep(p, validate_arg, profiles) ==
    IF ValidationRuns(validate_arg, profiles) THEN validate_plan(p, profiles) ELSE OK

\* A bug the code could have: the loop runs once more than range(max_retries + 1).
AttemptInRange_one_more(n, retries) == n <= retries + 1

\* for attempt in range(max_retries + 1)
AttemptInRange(n, retries) == n <= retries

\* str(e) of a ValidationError of the validator, kept as the kind of the error
ErrorText(e) == [t |-> "str", v |-> <<e.kind>>]

Response(response_text) == [role |-> "model", content |-> response_text]
Feedback(error) == [role |-> "user", content |-> error]

-----------------------------------------------------------------------------
(* Scenario: compile_question_sync against a model that answers each call     *)
(* with any of a bounded set of responses, for the schema snapshots and both  *)
(* values of validate, then the rest of ask_question on what it returned      *)

MaxRetries == 2

\* @plan{feasible:false reason:"no data"}
r_infeasible == <<"@","p","l","a","n","{","f","e","a","s","i","b","l","e",":","f","a","l","s","e"," ","r","e","a","s","o","n",":","\"","n","o"," ","d","a","t","a","\"","}">>
\* @plan{tables:[shipments] sql:"SELECT origin, n FROM shipments"}
r_valid == <<"@","p","l","a","n","{","t","a","b","l","e","s",":","[","s","h","i","p","m","e","n","t","s","]"," ","s","q","l",":","\"","S","E","L","E","C","T"," ","o","r","i","g","i","n",","," ","n"," ","F","R","O","M"," ","s","h","i","p","m","e","n","t","s","\"","}">>
\* (fence)toon\n@plan{sql:"SELECT origin, n FROM shipments"}\n(fence)
r_fenced == <<Backquote,Backquote,Backquote,"t","o","o","n","\n","@","p","l","a","n","{","s","q","l",":","\"","S","E","L","E","C","T"," ","o","r","i","g","i","n",","," ","n"," ","F","R","O","M"," ","s","h","i","p","m","e","n","t","s","\"","}","\n",Backquote,Backquote,Backquote>>
\* Plan: @plan{sql:"SELECT n FROM events"} done
r_prose == <<"P","l","a","n",":"," ","@","p","l","a","n","{","s","q","l",":","\"","S","E","L","E","C","T"," ","n"," ","F","R","O","M"," ","e","v","e","n","t","s","\"","}"," ","d","o","n","e">>
\* @plan{tables:[bogus] sql:"SELECT origin, n FROM shipments"}
r_unknown_table == <<"@","p","l","a","n","{","t","a","b","l","e","s",":","[","b","o","g","u","s","]"," ","s","q","l",":","\"","S","E","L","E","C","T"," ","o","r","i","g","i","n",","," ","n"," ","F","R","O","M"," ","s","h","i","p","m","e","n","t","s","\"","}">>
\* @plan{sql:"DROP TABLE shipments"}
r_drop == <<"@","p","l","a","n","{","s","q","l",":","\"","D","R","O","P"," ","T","A","B","L","E"," ","s","h","i","p","m","e","n","t","s","\"","}">>
\* @plan{sql:"SELECT n}
r_unterminated == <<"@","p","l","a","n","{","s","q","l",":","\"","S","E","L","E","C","T"," ","n","}">>
\* @plan{tables:[shipments]}
r_no_sql == <<"@","p","l","a","n","{","t","a","b","l","e","s",":","[","s","h","i","p","m","e","n","t","s","]","}">>
\* @plan{viz:[{type:table sql:"SELECT n FROM events"}]}
r_panel_sql == <<"@","p","l","a","n","{","v","i","z",":","[","{","t","y","p","e",":","t","a","b","l","e"," ","s","q","l",":","\"","S","E","L","E","C","T"," ","n"," ","F","R","O","M"," ","e","v","e","n","t","s","\"","}","]","}">>
\* @plan{sql:"SELECT n FROM events" viz:[bar]}
r_bad_viz == <<"@","p","l","a","n","{","s","q","l",":","\"","S","E","L","E","C","T"," ","n"," ","F","R","O","M"," ","e","v","e","n","t","s","\""," ","v","i","z",":","[","b","a","r","]","}">>

ModelResponses == {r_infeasible, r_valid, r_fenced, r_prose, r_unknown_table, r_drop, r_unterminated, r_no_sql, r_panel_sql, r_bad_viz}

\* The outcome of the parse step on each response of the model, and that of the
\* validation step for each value of validate and each schema: tables, so that
\* they are computed once for all the states.
ParsedResponse ==
    [response \in ModelResponses |-> ParseStep(_extract_toon(Strip(response)))]

CheckedResponse ==
    [response \in ModelResponses |-> [validate_arg \in BOOLEAN |-> [profiles \in Schemas |->
        CHOOSE checked \in {IF IsError(p) THEN OK ELSE ValidateStep(p, validate_arg, profiles)
                               : p \in {ParsedResponse[response]}} : TRUE]]]

InitCompile ==
    /\ pc = "compiling"
    /\ validate \in BOOLEAN
    /\ max_retries \in 0..MaxRetries
    /\ table_profiles \in Schemas
    /\ attempt = 0
    /\ last_error = PyNone
    /\ messages = <<>>
    /\ compiled = PyNone
    /\ page = Unused
    /\ text = <<>> /\ plan = PyNone /\ outcome = OK
    /\ sql = Unused /\ dashboard = Unused
    /\ tree = Unused /\ emitted = Unused /\ reparsed = Unused
    /\ query_result = Unused /\ db_log = Unused /\ panel_specs = Unused

\* one pass of the loop of compile_question_sync: the call of the model, the
\* parse step and the validation step
Attempt ==
    /\ pc = "compiling"
    /\ AttemptInRange(attempt, max_retries)
    /\ \E response \in ModelResponses :
       \E response_text \in {Strip(response)} :
       \E parsed \in {ParsedResponse[response]} :
       \E checked \in {CheckedResponse[response][validate][table_profiles]} :
          /\ text' = response_text
          /\ messages' = messages
                           \o (IF attempt > 0 THEN <<Feedback(last_error)>> ELSE <<>>)
                           \o <<Response(response_text)>>
          /\ IF IsError(parsed)
             THEN /\ last_error' = parsed
                  /\ attempt' = attempt + 1
                  /\ UNCHANGED <<plan, outcome, compiled, pc>>
             ELSE IF checked.ok
             THEN /\ plan' = parsed /\ outcome' = checked
                  /\ compiled' = parsed
                  /\ pc' = "returned"
                  /\ UNCHANGED <<last_error, attempt>>
             ELSE /\ outcome' = checked
                  /\ last_error' = checked
                  /\ IF attempt = max_retries
                     THEN /\ plan' = SetItem(parsed, k_validation_error, ErrorText(checked))
                          /\ compiled' = plan'
                          /\ pc' = "returned"
                          /\ UNCHANGED attempt
                     ELSE /\ plan' = parsed
                          /\ attempt' = attempt + 1
                          /\ UNCHANGED <<compiled, pc>>
    /\ UNCHANGED <<validate, max_retries, table_profiles, page, sql, dashboard, tree, emitted,
                   reparsed, query_result, db_log, panel_specs>>

\* the raise after the loop
RaiseCompilationError ==
    /\ pc = "compiling"
    /\ ~AttemptInRange(attempt, max_retries)
    /\ compiled' = CompilationError
    /\ pc' = "raised"
    /\ UNCHANGED <<validate, max_retries, table_profiles, attempt, last_error, messages, page,
                   text, plan, outcome, sql, dashboard, tree, emitted, reparsed,
                   query_result, db_log, panel_specs>>

\* ask_question after the compile step: the refusal for an infeasible plan, the
\* error page for a CompilationError; for a feasible plan the result page, or
\* the error page when the execution or the dashboard calls raise
RenderPage ==
    /\ pc \in {"returned", "raised"}
    /\ IF pc = "raised" THEN page' = "components/error.html"
       ELSE IF ~Truthy(Get(compiled, k_feasible, PyBool(TRUE)))
       THEN page' = "components/refusal.html"
       ELSE page' \in {"components/result.html", "components/error.html"}
    /\ pc' = "rendered"
    /\ UNCHANGED <<validate, max_retries, table_profiles, attempt, last_error, messages,
                   compiled, text, plan, outcome, sql, dashboard, tree, emitted, reparsed,
                   query_result, db_log, panel_specs>>

NextCompile == Attempt \/ RaiseCompilationError \/ RenderPage

SpecCompile == InitCompile /\ [][NextCompile]_vars

\* the interpreter runs the loop and the route to their end
SpecCompileFair == SpecCompile /\ WF_vars(NextCompile)

-----------------------------------------------------------------------------
(* Claims on validate_sql_readonly, checked under SpecSql                  *)

\* kw occurs in s as a whole word, in any letter casing: some stretch of s spells kw
\* when case is ignored, and no word character stands right before or right after it
OccursAsWholeWord(kw, s) ==
    \E i \in 1..Len(s) :
        /\ i + Len(kw) - 1 <= Len(s)
        /\ \A j \in 1..Len(kw) : s[i + j - 1] \in {kw[j], LowerChar(kw[j])}
        /\ (i = 1 \/ ~IsWordChar(s[i - 1]))
        /\ (i + Len(kw) - 1 = Len(s) \/ ~IsWordChar(s[i + Len(kw)]))

HasWriteWord(s) == \E k \in 1..Len(WRITE_KEYWORDS) : OccursAsWholeWord(WRITE_KEYWORDS[k], s)

\* C2: validate_sql_readonly raises ValidationError exactly for the SQL strings in
\* which one of the nine write keywords occurs as a whole word, in any letter
\* casing; a keyword that is only part of a longer identifier (created_at,
\* last_updated) does not get the query rejected.
C2_ReadOnlyPolicy ==
    pc = "validated" => (~outcome.ok <=> HasWriteWord(sql))

\* C2 witness: a query holding created_at and the mixed-case word Drop is rejected
\* for DROP, not for CREATE.
C2_Witness ==
    /\ pc = "validated"
    /\ Contains(sql, <<"c","r","e","a","t","e","d","_","a","t">>)
    /\ Contains(sql, <<" ","D","r","o","p">>)
    /\ outcome = ValidationError("forbidden_keyword", <<"D","R","O","P">>)

\* C3: a pure SELECT query whose write keywords all lie inside single- or
\* double-quoted spans is accepted by the read-only check.
C3_QuotedLiteralExempt ==
    (/\ pc = "validated"
     /\ StartsAt(sql, 0, <<"S","E","L","E","C","T"," ">>)
     /\ ~HasWriteWord(StripLiterals(sql)))
        => outcome.ok

-----------------------------------------------------------------------------
(* Claims on validate_plan and generate_dashboard, checked under SpecPlan  *)

\* the plan's feasible field, true by default
Feasible(p) == Truthy(Get(p, k_feasible, PyBool(TRUE)))
DeclaredInfeasible(p) ==
    HasKey(p, k_feasible) /\ Get(p, k_feasible, PyNone).t = "bool" /\ ~Get(p, k_feasible, PyNone).v

\* the panels of a plan, whether viz is a sequence or the legacy single panel
PanelsOf(p) ==
    LET viz == Get(p, k_viz, PyNone)
    IN  IF viz.t = "list" THEN viz.v ELSE IF viz.t = "dict" THEN <<viz>> ELSE <<>>

IsNonEmptyStr(val) == val.t = "str" /\ val.v # <<>>
OwnSql(panel) == Get(panel, k_sql, PyNone)
MainSql(p) == Get(p, k_sql, PyNone)

\* the effective SQL of the data model: panel.sql if present, else plan.sql
EffectiveSql(panel, p) == IF IsNonEmptyStr(OwnSql(panel)) THEN OwnSql(panel) ELSE MainSql(p)

\* the names of plan.tables that are no key of the schema, by position
UnknownTables(p, profiles) ==
    LET tables == Get(p, k_tables, PyList(<<>>)).v
    IN  {i \in 1..Len(tables) : \A tb \in DOMAIN profiles : tables[i].v # tb}

\* Steps 2 and 3 of the validation pass on the plan, and every SQL string of its
\* panels passes step 3, so that the panel-type rules decide the outcome.
OnlyPanelRulesLeft(p, profiles) ==
    /\ Feasible(p)
    /\ UnknownTables(p, profiles) = {}
    /\ IsNonEmptyStr(MainSql(p)) => ValidateSql(MainSql(p), profiles).ok
    /\ \A i \in 1..Len(PanelsOf(p)) :
          /\ IsNonEmptyStr(EffectiveSql(PanelsOf(p)[i], p))
          /\ IsNonEmptyStr(MainSql(p))
          /\ IsNonEmptyStr(OwnSql(PanelsOf(p)[i])) => ValidateSql(OwnSql(PanelsOf(p)[i]), profiles).ok

\* the declared type of a panel; the validator reads it ignoring letter case
DeclaredType(panel) == Lower(Get(panel, k_type, PyStr(<<>>)).v)

\* C4: a feasible plan is rejected whenever neither its sql nor any panel's own
\* sql is non-empty, also when it has no viz or an empty viz list.
C4_FeasibleNeedsSql ==
    (/\ pc # "start"
     /\ Feasible(plan)
     /\ ~IsNonEmptyStr(MainSql(plan))
     /\ \A i \in 1..Len(PanelsOf(plan)) : ~IsNonEmptyStr(OwnSql(PanelsOf(plan)[i])))
        => ~outcome.ok

\* C5: validate_plan succeeds for every plan with feasible = false, whatever its
\* tables, sql and viz contain.
C5_InfeasibleShortCircuit ==
    (pc # "start" /\ DeclaredInfeasible(plan)) => outcome = OK

\* C5 witness: an infeasible plan with an unknown table, write-keyword SQL and a
\* panel of an invalid type has been validated.
C5_Witness ==
    /\ pc = "validated"
    /\ DeclaredInfeasible(plan)
    /\ UnknownTables(plan, table_profiles) # {}
    /\ MainSql(plan) = PyStr(sql_drop)
    /\ Len(PanelsOf(plan)) = 1
    /\ DeclaredType(PanelsOf(plan)[1]) = n_bogus
    /\ outcome = OK

\* the query text of a panel document for a panel with effective SQL s: s itself,
\* or its bar rewrite for a bar panel
DocumentQuery(panel, s) ==
    IF Get(panel, k_type, PyStr(t_bar)).v = t_bar THEN BarQueryText(panel, s.v) ELSE s.v

\* C6: for every panel of an accepted plan the SQL in the panel's document is the
\* panel's own sql when it is non-empty and the plan's sql otherwise; when the only
\* panel of a plan has neither, validate_plan fails naming the panel's title.
C6_EffectiveSql ==
    /\ (pc = "generated" /\ Feasible(plan) /\ outcome.ok) =>
          /\ Len(dashboard.panels) = Len(PanelsOf(plan))
          /\ \A i \in 1..Len(PanelsOf(plan)) :
                dashboard.panels[i].targets[1].queryText
                    = DocumentQuery(PanelsOf(plan)[i], EffectiveSql(PanelsOf(plan)[i], plan))
    /\ (/\ pc # "start" /\ Feasible(plan)
        /\ UnknownTables(plan, table_profiles) = {}
        /\ Len(PanelsOf(plan)) = 1
        /\ ~IsNonEmptyStr(EffectiveSql(PanelsOf(plan)[1], plan))) =>
          outcome = ValidationError("panel_no_sql", Get(PanelsOf(plan)[1], k_title, PyNone))

\* C7: a panel whose declared type is one of the 14 enum values is never rejected
\* for its type, and a panel with any other declared type is rejected with an
\* error naming the type and the valid set.
C7_PanelTypeRule ==
    (pc # "start" /\ OnlyPanelRulesLeft(plan, table_profiles) /\ Len(PanelsOf(plan)) = 1) =>
        LET ty == DeclaredType(PanelsOf(plan)[1])
        IN  IF ty \in PanelTypeEnum \/ ty = <<>>
            THEN outcome.ok \/ outcome.kind # "invalid_type"
            ELSE outcome = ValidationError("invalid_type", [type |-> ty, valid |-> PanelTypeEnum])

\* C8: validate_plan fails if any name in plan.tables is not a key of the schema,
\* the error naming the first offending table and listing the known table names;
\* when every name is a key of the schema no table error is raised.
C8_TableReferences ==
    (pc # "start" /\ Feasible(plan)) =>
        IF UnknownTables(plan, table_profiles) # {}
        THEN outcome = ValidationError("table_not_found",
                 [table |-> Get(plan, k_tables, PyNone).v[Min(UnknownTables(plan, table_profiles))],
                  available |-> DOMAIN table_profiles])
        ELSE outcome.ok \/ outcome.kind # "table_not_found"

\* C8 witness: the list [shipments, nonexistent] against a schema that knows
\* shipments is rejected naming nonexistent.
C8_Witness ==
    /\ pc = "validated"
    /\ Feasible(plan)
    /\ Get(plan, k_tables, PyNone) = PyList(<<PyStr(n_shipments), PyStr(n_nonexistent)>>)
    /\ n_shipments \in DOMAIN table_profiles
    /\ ~outcome.ok /\ outcome.kind = "table_not_found"
    /\ outcome.detail.table = PyStr(n_nonexistent)

HasAxis(panel) == IsNonEmptyStr(Get(panel, k_x, PyNone)) \/ IsNonEmptyStr(Get(panel, k_y, PyNone))

C10_PanelSqlChecked ==
    (pc # "start" /\ Feasible(plan) /\ outcome.ok) =>
        \A i \in 1..Len(PanelsOf(plan)) :
            IsNonEmptyStr(OwnSql(PanelsOf(plan)[i])) =>
                /\ ~HasWriteWord(OwnSql(PanelsOf(plan)[i]).v)
                /\ validate_column_references(OwnSql(PanelsOf(plan)[i]).v, table_profiles).ok

-----------------------------------------------------------------------------
(* Claims on the TOON round trip, checked under SpecToon                   *)

RECURSIVE HasNull(_)
\* a null anywhere in the tree
HasNull(x) ==
    CASE x.t = "none" -> TRUE
      [] x.t = "list" -> \E i \in 1..Len(x.v) : HasNull(x.v[i])
      [] x.t = "dict" -> \E i \in 1..Len(x.v) : HasNull(x.v[i][2])
      [] OTHER -> FALSE

\* C1: a tree that parse_toon returned and that holds no null, serialised in
\* either mode and parsed again, comes back equal to the tree first parsed.
C1_RoundTrip ==
    (pc = "reparsed" /\ ~HasNull(parse_toon(text)))
        => (~IsError(reparsed) /\ PyEq(reparsed, parse_toon(text)))

-----------------------------------------------------------------------------
(* Claims on the query executor, checked under SpecExec                    *)

\* execute has run its read-only check
Checked == outcome.ok \/ outcome.kind # "not_checked"

\* execute has been called, by the scenario or by execute_plan
ExecuteCalled == pc \in {"execute", "connect", "query"} \/ (pc = "done" /\ Checked)

\* C11: execute runs the read-only check before any database access: nothing is
\* done on the database before the check has passed; SQL with a write keyword
\* ends in a failed QueryResult with empty data and the validation error, with no
\* connection opened; and every run of execute ends in a QueryResult, a failed
\* one carrying the driver's error when the driver raised.
C11_ExecutorOrdering ==
    /\ db_log # <<>> => outcome.ok
    /\ (ExecuteCalled /\ HasWriteWord(sql)) => db_log = <<>>
    /\ (pc = "done" /\ Checked /\ HasWriteWord(sql)) =>
          /\ query_result = [success |-> FALSE, data |-> <<>>, columns |-> <<>>, row_count |-> 0,
                             error |-> outcome]
          /\ outcome.kind = "forbidden_keyword"
    /\ pc \in {"start", "execute", "connect", "query", "done"}
    /\ (pc = "done" /\ db_log # <<>>) =>
          IF db_log = <<"connect failed">>
          THEN query_result = FailedResult(DriverError("connect"))
          ELSE /\ db_log = <<"connect", "execute", "close">>
               /\ query_result.success \/ query_result = FailedResult(DriverError("execute"))

\* C11 witness: execute has refused SQL with a write keyword without touching the
\* database.
C11_Witness ==
    /\ pc = "done" /\ Checked
    /\ HasWriteWord(sql)
    /\ ~query_result.success /\ query_result.error.kind = "forbidden_keyword"
    /\ db_log = <<>>

\* C12: for an infeasible plan execute_plan returns a failed result carrying
\* plan.reason without executing, and for every feasible plan that validate_plan
\* accepts it finds an SQL string and delegates to execute, never answering
\* 'No SQL query in plan'.
C12_ExecutePlanResolvesSql ==
    (plan # PyNone /\ pc # "start") =>
        IF ~Feasible(plan)
        THEN /\ pc = "done" /\ db_log = <<>> /\ ~Checked
             /\ query_result = FailedResult(Get(plan, k_reason, PyStr(not_feasible)))
        ELSE validate_plan(plan, table_profiles).ok =>
                /\ ExecuteCalled
                /\ ~(pc = "done" /\ query_result.error = PyStr(no_sql_in_plan))

-----------------------------------------------------------------------------
(* Claims on generate_panel and generate_multi_panel_dashboard, checked     *)
(* under SpecPanels                                                         *)

\* the panel spec generate_panel is given for an entry of the list, and its sql
VizOf(panel_spec) == Get(panel_spec, k_viz, panel_spec)
SqlOf(panel_spec) == Get(panel_spec, k_sql, PyStr(<<>>)).v

\* the renderer type the mapping of panel types names for each of the 14
RendererOf == {
    <<t_bar, <<"b","a","r","c","h","a","r","t">> >>,
    <<t_line, <<"t","i","m","e","s","e","r","i","e","s">> >>,
    << <<"s","t","a","t">>, <<"s","t","a","t">> >>,
    <<t_table, <<"t","a","b","l","e">> >>,
    << <<"p","i","e">>, <<"p","i","e","c","h","a","r","t">> >>,
    << <<"g","a","u","g","e">>, <<"g","a","u","g","e">> >>,
    << <<"h","e","a","t","m","a","p">>, <<"h","e","a","t","m","a","p">> >>,
    << <<"h","i","s","t","o","g","r","a","m">>, <<"h","i","s","t","o","g","r","a","m">> >>,
    << <<"s","t","a","t","e","_","t","i","m","e","l","i","n","e">>,
       <<"s","t","a","t","e","-","t","i","m","e","l","i","n","e">> >>,
    << <<"s","t","a","t","u","s","_","h","i","s","t","o","r","y">>,
       <<"s","t","a","t","u","s","-","h","i","s","t","o","r","y">> >>,
    << <<"c","a","n","d","l","e","s","t","i","c","k">>, <<"c","a","n","d","l","e","s","t","i","c","k">> >>,
    << <<"t","r","e","n","d">>, <<"t","r","e","n","d">> >>,
    << <<"x","y">>, <<"x","y","c","h","a","r","t">> >>,
    << <<"b","a","r","_","g","a","u","g","e">>, <<"b","a","r","g","a","u","g","e">> >> }

\* an options block without the x field a bar panel gets from its query
FixedOptions(doc) == [f \in DOMAIN doc.options \ {"xField"} |-> doc.options[f]]

\* the panel declares one of the 14 types
DeclaresKnownType(viz) ==
    HasKey(viz, k_type) /\ \E m \in RendererOf : m[1] = Get(viz, k_type, PyNone).v

\* C13: each panel declaring one of the 14 types gets the renderer type the mapping
\* names for it, an options block and a field configuration, and two panels
\* declaring the same type get the same renderer type, the same options block
\* (the x field of a bar panel apart) and the same field configuration, whatever
\* their queries and x columns.
C13_ClosedTypeMapping ==
    pc = "generated" =>
        \A i \in 1..Len(panel_specs) :
            LET viz == VizOf(panel_specs[i])
                doc == dashboard.panels[i]
            IN  DeclaresKnownType(viz) =>
                    /\ <<Get(viz, k_type, PyNone).v, doc.type>> \in RendererOf
                    /\ {"options", "fieldConfig"} \subseteq DOMAIN doc
                    /\ \A j \in 1..Len(panel_specs) :
                          Get(VizOf(panel_specs[j]), k_type, PyNone) = Get(viz, k_type, PyNone) =>
                              /\ dashboard.panels[j].type = doc.type
                              /\ FixedOptions(dashboard.panels[j]) = FixedOptions(doc)
                              /\ dashboard.panels[j].fieldConfig = doc.fieldConfig

\* C13 witness: a dashboard of two panels of one hyphenated type with different
\* queries and x columns.
C13_Witness ==
    /\ pc = "generated" /\ Len(panel_specs) = 2
    /\ panel_specs[1] # panel_specs[2]
    /\ DeclaresKnownType(panel_specs[1])
    /\ Get(panel_specs[1], k_type, PyNone) = Get(panel_specs[2], k_type, PyNone)
    /\ dashboard.panels[1].type = <<"s","t","a","t","e","-","t","i","m","e","l","i","n","e">>

\* C14: a panel whose type is unknown or not given at all comes out as a table
\* panel with its headers shown and with its query text unchanged.
C14_Fallback ==
    pc = "generated" =>
        \A i \in 1..Len(panel_specs) :
            LET viz == VizOf(panel_specs[i])
                doc == dashboard.panels[i]
            IN  ~DeclaresKnownType(viz) =>
                    /\ doc.type = t_table
                    /\ doc.options = [showHeader |-> TRUE]
                    /\ doc.targets[1].queryText = SqlOf(panel_specs[i])

\* the panel is declared a bar panel
IsBar(panel_spec) == Get(VizOf(panel_spec), k_type, PyNone) = PyStr(t_bar)

\* the name of the column is time-like
TimeLike(col) == \E kw \in time_keywords : Contains(Lower(col), kw)

\* the offsets at which col stands as a bare identifier in the select list of s:
\* as a whole word before the first FROM
InSelectList(s, col) ==
    {o \in 0..Len(s) :
        /\ WordBoundary(s, o) /\ StartsAt(s, o, col) /\ WordBoundary(s, o + Len(col))
        /\ \E f \in o..Len(s) : StartsAt(s, f, <<" ","F","R","O","M"," ">>)
        /\ \A f \in 0..o : ~StartsAt(s, f, <<" ","F","R","O","M"," ">>)}

\* s with the occurrence of col at offset o put into a call, and nothing else changed
WrappedAt(s, o, col, before, middle) ==
    SubSeq(s, 1, o) \o before \o col \o middle \o col \o SubSeq(s, o + Len(col) + 1, Len(s))

\* the query text of the document of panel i
QueryTextOf(i) == dashboard.panels[i].targets[1].queryText

\* C15: for a bar panel whose effective x column has a time-like name and stands as
\* a bare identifier in the select list, the emitted query is the panel's query
\* with that select-list occurrence wrapped in the string-formatting call, once,
\* and every other occurrence of the column (GROUP BY, ORDER BY, WHERE) untouched,
\* whatever clauses follow the select list.
C15_BarRewriteTimeLike ==
    pc = "generated" =>
        \A i \in 1..Len(panel_specs) :
            LET s == SqlOf(panel_specs[i])
                x_col == BarXColumn(VizOf(panel_specs[i]), s)
            IN  (/\ IsBar(panel_specs[i]) /\ Truthy(x_col)
                 /\ TimeLike(x_col.v) /\ InSelectList(s, x_col.v) # {}) =>
                    QueryTextOf(i) = WrappedAt(s, Min(InSelectList(s, x_col.v)), x_col.v,
                                               strftime_open, strftime_rest)

\* C16: for a bar panel whose effective x column is not time-like and stands as a
\* bare identifier in the select list, right after SELECT or after a comma, the
\* emitted query is the panel's query with that occurrence cast to text, once.
C16_BarRewriteCast ==
    pc = "generated" =>
        \A i \in 1..Len(panel_specs) :
            LET s == SqlOf(panel_specs[i])
                x_col == BarXColumn(VizOf(panel_specs[i]), s)
            IN  (/\ IsBar(panel_specs[i]) /\ Truthy(x_col)
                 /\ ~TimeLike(x_col.v) /\ InSelectList(s, x_col.v) # {}) =>
                    QueryTextOf(i) = WrappedAt(s, Min(InSelectList(s, x_col.v)), x_col.v,
                                               cast_open, cast_rest)

\* the panel is a table or a line panel
IsFullWidth(panel_spec) ==
    \E ty \in {t_table, t_line} : Get(VizOf(panel_spec), k_type, PyNone) = PyStr(ty)

\* how many of the panels before panel i are neither
HalvesBefore(i) == Cardinality({j \in 1..(i - 1) : ~IsFullWidth(panel_specs[j])})

\* C17: every table or line panel is placed full-width (x = 0, w = 24) on a row no
\* other panel shares, and the remaining panels are placed half-width, the first,
\* third, ... of them on the left (x = 0) and the second, fourth, ... on the right
\* (x = 12), each right one on the row of the left one before it.
C17_LayoutRule ==
    pc = "generated" =>
        \A i \in 1..Len(panel_specs) :
            LET at == dashboard.panels[i].gridPos
            IN  IF IsFullWidth(panel_specs[i])
                THEN /\ at.x = 0 /\ at.w = 24
                     /\ \A j \in 1..Len(panel_specs) :
                           j # i => dashboard.panels[j].gridPos.y # at.y
                ELSE /\ at.w = 12
                     /\ at.x = IF HalvesBefore(i) % 2 = 0 THEN 0 ELSE 12
                     /\ \A j \in 1..(i - 1) :
                           (/\ ~IsFullWidth(panel_specs[j])
                            /\ HalvesBefore(j) + 1 = HalvesBefore(i)
                            /\ HalvesBefore(i) % 2 = 1) =>
                               dashboard.panels[j].gridPos.y = at.y

-----------------------------------------------------------------------------
(* Claims on the documents of generate_dashboard, checked under SpecPlan    *)

\* the SQL of a panel as a string: its effective SQL, empty when it has none
PanelQuery(panel, p) ==
    IF IsNonEmptyStr(EffectiveSql(panel, p)) THEN EffectiveSql(panel, p) ELSE PyStr(<<>>)

\* C18: the dashboard of a feasible plan has exactly one panel document per panel
\* of the plan, in the plan's panel order, each with exactly one target carrying
\* the panel's query text and with a grid position of x, y, w and h, for a list of
\* panels and for the legacy single panel.
C18_OneDocumentPerPanel ==
    (pc = "generated" /\ Feasible(plan)) =>
        /\ Len(dashboard.panels) = Len(PanelsOf(plan))
        /\ \A i \in 1..Len(PanelsOf(plan)) :
              LET panel == PanelsOf(plan)[i]
                  doc == dashboard.panels[i]
              IN  /\ doc.title = Get(panel, k_title, PyStr(<<"P","a","n","e","l">>))
                  /\ Len(doc.targets) = 1
                  /\ doc.targets[1].queryText = DocumentQuery(panel, PanelQuery(panel, plan))
                  /\ doc.targets[1].rawQueryText = doc.targets[1].queryText
                  /\ DOMAIN doc.gridPos = {"x", "y", "w", "h"}

-----------------------------------------------------------------------------
(* Claims on parse_toon for near-miss documents, checked under SpecNearMiss *)

RECURSIVE LeftOpen(_, _, _, _)
\* Reading s from the 1-based position i with the braces and brackets in open
\* still to be closed, inside a string begun by quote unless quote is "": a brace,
\* a bracket or a quote is left open at the end of s.  A backslash inside a string
\* takes the next character with it.
LeftOpen(s, i, open, quote) ==
    IF i > Len(s) THEN open # <<>> \/ quote # ""
    ELSE IF quote # ""
    THEN IF s[i] = "\\" /\ i < Len(s) THEN LeftOpen(s, i + 2, open, quote)
         ELSE LeftOpen(s, i + 1, open, IF s[i] = quote THEN "" ELSE quote)
    ELSE IF s[i] \in {"\"", "'"} THEN LeftOpen(s, i + 1, open, s[i])
    ELSE IF s[i] \in {"{", "["} THEN LeftOpen(s, i + 1, <<s[i]>> \o open, "")
    ELSE IF open # <<>> /\ <<Head(open), s[i]>> \in {<<"{", "}">>, <<"[", "]">>}
    THEN LeftOpen(s, i + 1, Tail(open), "")
    ELSE LeftOpen(s, i + 1, open, "")

Unterminated(s) == LeftOpen(s, 1, <<>>, "")

\* C19: parse_toon fails with ToonParseError for every input in which a brace, a
\* bracket or a quote that was opened is not closed by the end of the input, at
\* the top level as well as inside nested values, and returns no tree for it.
C19_UnterminatedFails ==
    (pc = "parsed" /\ Unterminated(text)) => IsError(tree)

\* the text has stray characters in it
HasGarbage(s) == \E i \in 1..Len(s) : s[i] \in GarbageChars

\* the text with its stray characters taken out
WithoutGarbage(s) == SelectSeq(s, LAMBDA c : c \notin GarbageChars)

\* the object the two members stand in
ObjectOf(x) == Get(x, <<"o">>, x)

\* C20: stray characters between two well-formed members of an object are skipped
\* without an error, and the result holds every member before and after them
\* with its own value: it is the result for the text without the stray
\* characters, and has both members.
C20_ParserLeniency ==
    (pc = "parsed" /\ HasGarbage(text)) =>
        /\ ~IsError(tree)
        /\ tree = parse_toon(WithoutGarbage(text))
        /\ HasKey(ObjectOf(tree), <<"k">>) /\ HasKey(ObjectOf(tree), <<"j">>)
        /\ Get(ObjectOf(tree), <<"j">>, PyNone) # PyNone

\* C20 witness: a document with stray characters between its members has been
\* parsed into an object of both members, the second a string.
C20_Witness ==
    /\ pc = "parsed" /\ HasGarbage(text)
    /\ ~IsError(tree)
    /\ Get(ObjectOf(tree), <<"k">>, PyNone) = PyInt(12)
    /\ Get(ObjectOf(tree), <<"j">>, PyNone) = PyStr(<<"a"," ","b">>)

-----------------------------------------------------------------------------
(* Further claims on validate_plan and generate_dashboard, checked under    *)
(* SpecPlan                                                                 *)

\* what the validator answers for panel i of the plan taken alone
PanelResult(p, profiles, i) ==
    IF Get(p, k_viz, PyNone).t = "list"
    THEN ValidatePanel(PanelsOf(p)[i], MainSql(p), profiles)
    ELSE ValidateSinglePanel(PanelsOf(p)[i], MainSql(p))

\* the panels the validator looks at: none when viz is empty
CheckedPanels(p) == IF Truthy(Get(p, k_viz, PyNone)) THEN 1..Len(PanelsOf(p)) ELSE {}

\* C22: validate_plan applies its checks in the order table references, read-only
\* check of the plan's SQL, column heuristic of the plan's SQL, then the panels in
\* sequence order, and reports the error of the earliest check that fails.
C22_ValidationOrder ==
    (pc # "start" /\ Feasible(plan)) =>
        IF UnknownTables(plan, table_profiles) # {}
        THEN ~outcome.ok /\ outcome.kind = "table_not_found"
        ELSE IF IsNonEmptyStr(MainSql(plan)) /\ HasWriteWord(MainSql(plan).v)
        THEN outcome = validate_sql_readonly(MainSql(plan).v) /\ ~outcome.ok
        ELSE IF /\ IsNonEmptyStr(MainSql(plan))
                /\ ~validate_column_references(MainSql(plan).v, table_profiles).ok
        THEN outcome = validate_column_references(MainSql(plan).v, table_profiles)
        ELSE LET failing == {i \in CheckedPanels(plan) :
                                ~PanelResult(plan, table_profiles, i).ok}
             IN  IF failing = {} THEN outcome.ok
                 ELSE outcome = PanelResult(plan, table_profiles, Min(failing))

\* C22 witness: a plan with an unknown table and a DROP statement is rejected for
\* the table.
C22_Witness ==
    /\ pc = "validated" /\ Feasible(plan)
    /\ UnknownTables(plan, table_profiles) # {}
    /\ MainSql(plan) = PyStr(sql_drop)
    /\ ~outcome.ok /\ outcome.kind = "table_not_found"

-----------------------------------------------------------------------------
(* Claims on validate_column_references, checked under SpecColumns          *)

RECURSIVE SpaceSeparated(_, _)
\* the pieces of s between spaces and commas, from the 1-based position i on
SpaceSeparated(s, i) ==
    IF i > Len(s) THEN <<>>
    ELSE IF s[i] \in {" ", ","} THEN SpaceSeparated(s, i + 1)
    ELSE LET stop == Min({j \in i..(Len(s) + 1) : j = Len(s) + 1 \/ s[j] \in {" ", ","}})
         IN  <<SubSeq(s, i, stop - 1)>> \o SpaceSeparated(s, stop)

\* the piece is a word outside quotes: quoted spans and numbers are none
IsBareWord(piece) ==
    /\ \A i \in 1..Len(piece) : IsWordChar(piece[i])
    /\ ~IsDigit(piece[1])

\* the words that remain: no stoplist keyword, no column of any table, no table
\* name, and longer than two characters
RemainingWords(s, profiles) ==
    LET Remains(piece) ==
            /\ IsBareWord(piece)
            /\ Lower(piece) \notin sql_keywords
            /\ \A tb \in DOMAIN profiles :
                  /\ Lower(piece) # Lower(tb)
                  /\ \A i \in 1..Len(profiles[tb]) : Lower(piece) # Lower(profiles[tb][i])
            /\ Len(piece) > 2
    IN  SelectSeq(SpaceSeparated(s, 1), Remains)

\* C23: validate_column_references fails exactly when more than 3 words remain
\* after quoted spans, stoplist keywords, known columns, known tables and words
\* of length up to 2 are removed, and the error names the first 5 of them at
\* most; with 3 or fewer it succeeds.
C23_ColumnThreshold ==
    pc = "checked" =>
        LET remaining == RemainingWords(sql, table_profiles)
        IN  IF Len(remaining) > 3
            THEN /\ ~outcome.ok /\ outcome.kind = "unknown_columns"
                 /\ outcome.detail = SubSeq(remaining, 1, IF Len(remaining) < 5
                                                           THEN Len(remaining) ELSE 5)
            ELSE outcome.ok

\* C23 witness: a query with a quoted span and more than five remaining words is
\* rejected naming five of them.
C23_Witness ==
    /\ pc = "checked"
    /\ Len(RemainingWords(sql, table_profiles)) > 5
    /\ Contains(sql, <<"'">>)
    /\ DOMAIN table_profiles # {}
    /\ ~outcome.ok /\ Len(outcome.detail) = 5

-----------------------------------------------------------------------------
(* Further claims on generate_multi_panel_dashboard, checked under          *)
(* SpecPanels                                                               *)

\* two grid rectangles share a cell
Overlap(r1, r2) ==
    /\ r1.x < r2.x + r2.w /\ r2.x < r1.x + r1.w
    /\ r1.y < r2.y + r2.h /\ r2.y < r1.y + r1.h

\* C24: in the dashboard of generate_multi_panel_dashboard no two panels' grid
\* rectangles overlap, and every rectangle lies inside the 24 columns of the grid.
C24_GridNonOverlap ==
    pc = "generated" =>
        \A i \in 1..Len(dashboard.panels) :
            /\ dashboard.panels[i].gridPos.x >= 0
            /\ dashboard.panels[i].gridPos.x + dashboard.panels[i].gridPos.w <= 24
            /\ \A j \in 1..Len(dashboard.panels) :
                  i # j => ~Overlap(dashboard.panels[i].gridPos, dashboard.panels[j].gridPos)

-----------------------------------------------------------------------------
(* Further claims on the TOON serializer and parser, checked under SpecToon *)

\* C25: serialize_toon leaves the tree it is given as it was, its top-level tag
\* included, so that serializing the tree once more gives the same string.
C25_SerializeLeavesTree ==
    pc = "serialized" =>
        /\ tree = parse_toon(text)
        /\ \E compact \in BOOLEAN : serialize_toon(tree, 0, compact) = emitted

-----------------------------------------------------------------------------
(* Claims on the termination of parse_toon, checked under SpecNesting         *)

\* C26: parse_toon terminates on every finite input with one of two outcomes: it
\* returns a tree or it raises ToonParseError (the scanning loops advance by at
\* least one character in each iteration, so no other outcome is left).
C26_TreeOrParseError ==
    pc = "parsed" => tree = ToonParseError \/ tree.t = "dict"

-----------------------------------------------------------------------------
(* Claims on compile_question_sync and ask_question, checked under            *)
(* SpecCompile and SpecCompileFair                                            *)

\* the responses of the model so far, in order
ResponsesOf(msgs) == SelectSeq(msgs, LAMBDA m : m.role = "model")

\* the plan a response holds, or the error of parse_toon
PlanIn(response_text) == parse_toon(_extract_toon(response_text))

\* an infeasible plan: feasible:false with a reason and no sql
IsRefusal(p) ==
    /\ ~IsError(p)
    /\ HasKey(p, k_feasible) /\ ~Truthy(Get(p, k_feasible, PyBool(TRUE)))
    /\ HasKey(p, k_reason) /\ ~HasKey(p, k_sql)

\* C21: an infeasible plan produced by the model (feasible:false with a reason, no
\* sql) comes out of the compile step as its result, which ask_question shows as
\* the refusal: the attempt is not counted as failed, the model is not called
\* again and the compile step does not end in CompilationError.
C21_RefusalIsAResult ==
    (/\ messages # <<>>
     /\ IsRefusal(PlanIn(messages[Len(messages)].content)))
        => /\ pc \in {"returned", "rendered"}
           /\ compiled = PlanIn(messages[Len(messages)].content)
           /\ pc = "rendered" => page = "components/refusal.html"

\* the parse step of an attempt raises nothing: parse_toon returns a plan and
\* the plan carries SQL
Parses(response_text) == ~IsError(ParseStep(_extract_toon(response_text)))

\* and the validation step raises nothing either
Validates(response_text) ==
    ValidateStep(ParseStep(_extract_toon(response_text)), validate, table_profiles).ok

C27_Outcomes ==
    LET calls == ResponsesOf(messages)
        n == Len(calls)
        final == calls[n].content
    IN  /\ n <= max_retries + 1
        /\ \A i \in 1..(n - 1) : ~(Parses(calls[i].content) /\ Validates(calls[i].content))
        /\ compiled = PyNone => n = attempt /\ (n > 0 => ~(Parses(final) /\ Validates(final)))
        /\ compiled = CompilationError => n = max_retries + 1 /\ ~Parses(final)
        /\ compiled \notin {PyNone, CompilationError} =>
              /\ n >= 1 /\ Parses(final)
              /\ IF Validates(final)
                 THEN compiled = ParseStep(_extract_toon(final))
                 ELSE /\ n = max_retries + 1
                      /\ HasKey(compiled, k_validation_error)
                      /\ \A k \in {k_sql, k_tables, k_viz, k_feasible} :
                            Get(compiled, k, PyNone)
                              = Get(ParseStep(_extract_toon(final)), k, PyNone)

\* C27: compile_question_sync calls the model at most max_retries + 1 times and
\* then terminates.  It returns at the first attempt whose output parses and
\* validates, returns the last plan tagged with validation_error when the final
\* attempt parses but fails validation, raises CompilationError when the final
\* attempt fails to parse, and calls the model no more once it has returned or
\* raised.  An output parses when the parse step of the loop raises nothing
\* (parse_toon and the check that the plan carries SQL), and validates when the
\* validation step raises nothing.
C27_RetryBound ==
    /\ []C27_Outcomes
    /\ [][compiled # PyNone => messages' = messages]_vars
    /\ <>(compiled # PyNone)

\* the final attempt parsed and failed validation after two failed attempts
C27_Witness ==
    /\ pc = "returned" /\ max_retries = 2 /\ attempt = max_retries
    /\ HasKey(compiled, k_validation_error)
    /\ Len(ResponsesOf(messages)) = 3

\* C28: a plan that compile_question_sync called with validate = True returns
\* without a validation_error key was accepted by validate_plan against the
\* schema installed with set_schema, whatever the schema, an empty one included.
C28_UntaggedWasValidated ==
    (/\ pc = "returned" /\ validate = TRUE
     /\ ~HasKey(compiled, k_validation_error))
        => validate_plan(compiled, table_profiles).ok

-----------------------------------------------------------------------------
(* Claims on the query texts of generate_dashboard, checked under SpecPlan    *)

\* the strings of a plan that validate_plan hands to the read-only check: the
\* plan's sql and the sql of the panels of a viz list, when not empty
CheckedSql(p) ==
    (IF Truthy(MainSql(p)) THEN {MainSql(p).v} ELSE {})
    \cup (IF Get(p, k_viz, PyNone).t = "list"
          THEN {Get(pn, k_sql, PyNone).v :
                   pn \in {q \in Range(Get(p, k_viz, PyNone).v) : Truthy(Get(q, k_sql, PyNone))}}
          ELSE {})

\* C29: for every feasible plan that validate_plan accepts, every query text in
\* every panel document of generate_dashboard is free of the nine write
\* keywords: it is a string that passed the read-only check, or the bar rewrite
\* of such a string.
C29_QueriesReadOnly ==
    (pc = "generated" /\ Feasible(plan) /\ outcome.ok) =>
        \A i \in 1..Len(dashboard.panels) :
            LET query == dashboard.panels[i].targets[1].queryText
            IN  /\ ~HasWriteWord(query)
                /\ \E s \in CheckedSql(plan) :
                      /\ validate_sql_readonly(s).ok
                      /\ query \in {s} \cup {BarQueryText(pn, s) : pn \in Range(PanelsOf(plan))}

\* an accepted plan of two panels has its documents, one of them with the
\* panel's own SQL and one with the bar rewrite of the plan's SQL
C29_Witness ==
    /\ pc = "generated" /\ Feasible(plan) /\ outcome.ok
    /\ Len(dashboard.panels) = 2
    /\ \E i \in 1..2 : dashboard.panels[i].targets[1].queryText = sql_panel
    /\ \E i \in 1..2 : dashboard.panels[i].targets[1].queryText \notin CheckedSql(plan)

-----------------------------------------------------------------------------
(* Claims on the panel types of validator and generator, under SpecPlan      *)

\* the type validate_visualization reads in a panel: the declared type in lower
\* case, the empty string when none is declared
ValidatorType(viz) == Lower(Get(viz, k_type, PyStr(<<>>)).v)

\* C30: validator and generator agree on panel types: for every panel that
\* validate_visualization accepts, the document of generate_panel has the
\* renderer type mapped to the type the validator read in the panel, with the
\* same handling of letter case and of a missing type.
C30_TypesAgree ==
    (pc = "generated" /\ Feasible(plan) /\ outcome.ok) =>
        \A i \in 1..Len(dashboard.panels) :
            i <= Len(PanelsOf(plan)) =>
                dashboard.panels[i].type = RendererType(ValidatorType(PanelsOf(plan)[i]))

====
